---- MODULE Spec2Model ----
(***************************************************************************)
(* Peer-synchronised Jotto: the session manager (P2PGameManager) running   *)
(* over the shared broadcast bus (BroadcastManager), one instance of each  *)
(* per browsing context (process).                                         *)
(*                                                                         *)
(* Words are sequences of one-character strings, so that the scoring       *)
(* functions can look at single letters.  Times are milliseconds, as       *)
(* returned by Date.now().                                                 *)
(***************************************************************************)
EXTENDS Integers, Sequences, FiniteSets, TLC

VARIABLES
    now,        \* the wall clock, Date.now(), in milliseconds
    mgr,        \* per process: the P2PGameManager fields
    bm,         \* per process: the BroadcastManager fields
    chans,      \* per process: the names of its open BroadcastChannel objects
    pending,    \* per process: joinGame calls suspended in the 100 ms wait
    inbox,      \* inbox[r][s]: messages posted by s, not yet handled by r
    hostInfo,   \* localStorage: the jotto-host-<gameId> records
    savedName,  \* localStorage: jotto-player-name-<id>, per game id
    guessCalls, \* per process: makeGuess calls so far
    last,       \* the step just taken: operation, process, outcome
    rtc,        \* the WebRTCManager of one process: its connection to each peer
    calc,       \* one call of calculateCommonLetters: arguments and results
    hook        \* per process: the state of useP2PGame on the game page

vars == <<now, mgr, bm, chans, pending, inbox, hostInfo, savedName,
          guessCalls, last, rtc, calc, hook>>

----------------------------------------------------------------------------
(* Bounds of the model *)

\* the clock stops advancing after this many ticks of one and a half seconds
MaxTicks == 1
\* makeGuess calls per process
MaxGuesses == 2
\* BroadcastChannel objects one process opens (createGame and joinGame calls)
MaxChannels == 2
\* messages waiting in one inbox[r][s]
MaxInbox == 3
\* sessions one process enters (createGame, joinGame, reconnectToGame) with
\* a new BroadcastManager id each
MaxSessions == 2
\* seconds the elapsed-time counter of one page counts
MaxElapsed == 2

----------------------------------------------------------------------------
(* Values *)

Procs == {"a", "b", "c"}

\* BroadcastManager.myId of each process as constructed (generateId, random)
IdOf == [p \in Procs |-> "id-" \o p]

GameIds == {"G1", "G2"}

NoId == "null"
NoGameId == "null"

\* BroadcastManager.channel after channel.close(): the object stays in the
\* field, closed
Closed == "closed"
NoTime == -1

\* GameState | null
NoGame == [gameId |-> NoGameId, hostWord |-> <<>>, players |-> <<>>,
           status |-> "null", startTime |-> NoTime]

\* the value of guessData.guess when the payload has no such property
Undefined == [undefined |-> TRUE]

Placeholder == <<"*", "*", "*", "*">>

LowerSeq == <<"a","b","c","d","e","f","g","h","i","j","k","l","m",
              "n","o","p","q","r","s","t","u","v","w","x","y","z">>
UpperSeq == <<"A","B","C","D","E","F","G","H","I","J","K","L","M",
              "N","O","P","Q","R","S","T","U","V","W","X","Y","Z">>

IndexIn(c, s) == IF \E i \in DOMAIN s : s[i] = c
                 THEN CHOOSE i \in DOMAIN s : s[i] = c
                 ELSE 0

\* String.prototype.toUpperCase / toLowerCase, one character
UpperChar(c) == IF IndexIn(c, LowerSeq) > 0 THEN UpperSeq[IndexIn(c, LowerSeq)] ELSE c
LowerChar(c) == IF IndexIn(c, UpperSeq) > 0 THEN LowerSeq[IndexIn(c, UpperSeq)] ELSE c

toUpperCase(w) == [i \in DOMAIN w |-> UpperChar(w[i])]
toLowerCase(w) == [i \in DOMAIN w |-> LowerChar(w[i])]

\* /^[A-Za-z]+$/
IsAlpha(c) == IndexIn(c, LowerSeq) > 0 \/ IndexIn(c, UpperSeq) > 0

WordLength == 5

\* a variant that tests the length only
validateLength(word) == Len(word) = WordLength

validateWord(word) ==
    Len(word) = WordLength /\ \A i \in DOMAIN word : IsAlpha(word[i])

\* hostCount[letter] / guessCount[letter]: occurrences of a letter
LetterCount(letters, c) == Cardinality({i \in DOMAIN letters : letters[i] = c})

\* a variant that returns the host's count
MinHost(x, y) == x

Min(x, y) == IF x <= y THEN x ELSE y

RECURSIVE SumOver(_, _, _)
SumOver(keys, hostLetters, guessLetters) ==
    IF keys = {} THEN 0
    ELSE LET letter == CHOOSE k \in keys : TRUE
         IN  (IF LetterCount(hostLetters, letter) > 0
              THEN Min(LetterCount(hostLetters, letter),
                       LetterCount(guessLetters, letter))
              ELSE 0)
             + SumOver(keys \ {letter}, hostLetters, guessLetters)

\* a variant that counts each letter the two words share once
calculateSharedLetters(hostWord, guessWord) ==
    LET hostLetters == toLowerCase(hostWord)
        guessLetters == toLowerCase(guessWord)
    IN  Cardinality({guessLetters[i] : i \in DOMAIN guessLetters}
                    \cap {hostLetters[i] : i \in DOMAIN hostLetters})

calculateCommonLetters(hostWord, guessWord) ==
    LET hostLetters == toLowerCase(hostWord)
        guessLetters == toLowerCase(guessWord)
    IN  SumOver({guessLetters[i] : i \in DOMAIN guessLetters},
                hostLetters, guessLetters)

isWordCorrect(hostWord, guessWord) ==
    toLowerCase(hostWord) = toLowerCase(guessWord)

\* String.prototype.trim on the names the model uses
trim(name) == CASE name = " Bob" -> "Bob"
                [] name = " "    -> ""
                [] OTHER         -> name

HOUSE == <<"H","O","U","S","E">>
MOUSE == <<"M","O","U","S","E">>
house == <<"h","o","u","s","e">>
HOU5E == <<"H","O","U","5","E">>
ERROR == <<"E","R","R","O","R">>
ARROW == <<"A","R","R","O","W">>
ELITE == <<"E","L","I","T","E">>

\* no call made, and the result of a call not yet made
NoCalc == [hostWord |-> <<>>, guessWord |-> <<>>, common |-> -1, swapped |-> -1]

----------------------------------------------------------------------------
(* P2PGameManager over the broadcast bus: the handlers as functions of the  *)
(* manager's fields m = [gameState, isHost, currentPlayerId].  Each returns *)
(* the fields after the call, the messages handed to the transport in order *)
(* (each [type, data]) and how the call ended.                              *)

Result(m, sent, outcome) == [m |-> m, sent |-> sent, outcome |-> outcome]

Msg(type, data) == [type |-> type, data |-> data]

\* BroadcastManager.send: the payload is { target: peerId, ...data }; the
\* spread of a string is its characters, kept here as one field
SendMsg(peerId, type, text) ==
    Msg(type, [target |-> peerId, spread |-> text])

\* players.find(p => p.id === playerId): index of the first match, 0 if none
FindById(players, playerId) ==
    IF \E i \in DOMAIN players : players[i].id = playerId
    THEN CHOOSE i \in DOMAIN players :
            /\ players[i].id = playerId
            /\ \A j \in DOMAIN players : players[j].id = playerId => i <= j
    ELSE 0

\* a variant of the name check below that compares the ids with the name
IdTaken(players, name) == \E i \in DOMAIN players : players[i].id = name

\* players.find(p => p.name === player.name)
NameTaken(players, name) == \E i \in DOMAIN players : players[i].name = name

\* Player: { id, name, guesses, timeUsed, status, joinedAt }; no code reads
\* joinedAt, which is left out
NewPlayer(id, name, t) ==
    [id |-> id, name |-> name, guesses |-> <<>>, timeUsed |-> 0,
     status |-> "playing"]

broadcastGameState(m) ==
    IF m.gameState # NoGame
    THEN << Msg("game:state",
                [m.gameState EXCEPT
                    !.hostWord = IF m.isHost THEN m.gameState.hostWord
                                 ELSE Placeholder]) >>
    ELSE <<>>

MsPerSecond == 1000

\* Math.floor((Date.now() - startTime) / 1000), 0 when startTime is falsy
TimeUsed(gs, t) ==
    IF gs.startTime # NoTime /\ gs.startTime # 0
    THEN (t - gs.startTime) \div MsPerSecond
    ELSE 0

\* activePlayers / finishedPlayers of handlePlayerGuess
AllActiveFinished(players) ==
    LET active == {i \in DOMAIN players : players[i].status # "disconnected"}
        finished == {i \in active : players[i].status = "finished"}
    IN  Cardinality(finished) = Cardinality(active)

\* a variant of the early exit below that lets a finished player's guess through
SkipsUnknownOnly(players, playerId) ==
    FindById(players, playerId) = 0

\* const player = players.find(...); if (!player || player.status === 'finished') return
SkipsGuess(players, playerId) ==
    \/ FindById(players, playerId) = 0
    \/ players[FindById(players, playerId)].status = "finished"

\* a variant of handlePlayerGuess that sends the snapshot before the guess
\* event
handlePlayerGuessStateFirst(m, playerId, guess, t) ==
    IF ~m.isHost \/ m.gameState = NoGame
    THEN Result(m, <<>>, "not-host")
    ELSE
    LET gs == m.gameState
        i  == FindById(gs.players, playerId)
    IN
    IF SkipsGuess(gs.players, playerId)
    THEN Result(m, <<>>, "ignored")
    ELSE IF "undefined" \in DOMAIN guess
    THEN Result(m, <<>>, "TypeError")       \* guess.word of undefined
    ELSE IF ~validateWord(guess.word)
    THEN Result(m, << SendMsg(playerId, "game:error", "Invalid word") >>, "invalid")
    ELSE
    LET commonLetters == calculateCommonLetters(gs.hostWord, toUpperCase(guess.word))
        timeUsed == TimeUsed(gs, t)
        \* Guess: { word, commonLetters, timestamp }; no code reads timestamp,
        \* which is left out
        processedGuess == [word |-> toUpperCase(guess.word),
                           commonLetters |-> commonLetters]
        correct == isWordCorrect(gs.hostWord, guess.word)
        players1 == [gs.players EXCEPT
                        ![i].guesses = Append(@, processedGuess),
                        ![i].timeUsed = timeUsed,
                        ![i].status = IF correct THEN "finished" ELSE @]
        status1 == IF correct /\ AllActiveFinished(players1)
                   THEN "finished" ELSE gs.status
        m1 == [m EXCEPT !.gameState = [gs EXCEPT !.players = players1,
                                                 !.status = status1]]
    IN  Result(m1,
               (IF correct
                THEN << Msg("game:finished",
                            [playerId |-> playerId, finalTime |-> timeUsed]) >>
                ELSE <<>>)
               \o broadcastGameState(m1)
               \o << Msg("game:guess",
                         [playerId |-> playerId, guess |-> processedGuess]) >>,
               IF correct THEN "correct" ELSE "recorded")

handlePlayerGuess(m, playerId, guess, t) ==
    IF ~m.isHost \/ m.gameState = NoGame
    THEN Result(m, <<>>, "not-host")
    ELSE
    LET gs == m.gameState
        i  == FindById(gs.players, playerId)
    IN
    IF SkipsGuess(gs.players, playerId)
    THEN Result(m, <<>>, "ignored")
    ELSE IF "undefined" \in DOMAIN guess
    THEN Result(m, <<>>, "TypeError")       \* guess.word of undefined
    ELSE IF ~validateWord(guess.word)
    THEN Result(m, << SendMsg(playerId, "game:error", "Invalid word") >>, "invalid")
    ELSE
    LET commonLetters == calculateCommonLetters(gs.hostWord, toUpperCase(guess.word))
        timeUsed == TimeUsed(gs, t)
        \* Guess: { word, commonLetters, timestamp }; no code reads timestamp,
        \* which is left out
        processedGuess == [word |-> toUpperCase(guess.word),
                           commonLetters |-> commonLetters]
        correct == isWordCorrect(gs.hostWord, guess.word)
        players1 == [gs.players EXCEPT
                        ![i].guesses = Append(@, processedGuess),
                        ![i].timeUsed = timeUsed,
                        ![i].status = IF correct THEN "finished" ELSE @]
        status1 == IF correct /\ AllActiveFinished(players1)
                   THEN "finished" ELSE gs.status
        m1 == [m EXCEPT !.gameState = [gs EXCEPT !.players = players1,
                                                 !.status = status1]]
    IN  Result(m1,
               (IF correct
                THEN << Msg("game:finished",
                            [playerId |-> playerId, finalTime |-> timeUsed]) >>
                ELSE <<>>)
               \o << Msg("game:guess",
                         [playerId |-> playerId, guess |-> processedGuess]) >>
               \o broadcastGameState(m1),
               IF correct THEN "correct" ELSE "recorded")

handleJoinRequest(m, player) ==
    IF m.isHost /\ m.gameState # NoGame
    THEN IF NameTaken(m.gameState.players, player.name)
         THEN Result(m, << SendMsg(player.id, "game:error", "Player name already taken") >>,
                     "rejected")
         ELSE LET m1 == [m EXCEPT !.gameState.players = Append(@, player)]
              IN  Result(m1,
                         << Msg("game:player-joined", player) >>
                         \o broadcastGameState(m1),
                         "admitted")
    ELSE Result(m, <<>>, "not-host")

handleGameStateUpdate(m, gameState) ==
    Result([m EXCEPT !.gameState = gameState], <<>>, "replaced")

handlePlayerJoined(m, player, t) ==
    IF m.isHost /\ m.gameState # NoGame
    THEN IF NameTaken(m.gameState.players, player.name)
         THEN Result(m, << SendMsg(player.id, "game:error", "Player name already taken") >>,
                     "rejected")
         ELSE LET players1 == Append(m.gameState.players, player)
                  start == Len(players1) >= 2 /\ m.gameState.status = "waiting"
                  m1 == [m EXCEPT
                           !.gameState.players = players1,
                           !.gameState.status = IF start THEN "playing" ELSE @,
                           !.gameState.startTime = IF start THEN t ELSE @]
              IN  Result(m1,
                         broadcastGameState(m1)
                         \o << Msg("game:player-joined", player) >>,
                         IF start THEN "started" ELSE "admitted")
    ELSE Result(m, <<>>, "not-host")

\* a variant of the handler below that takes the player out of the list
handlePlayerLeftRemoving(m, playerId) ==
    IF m.gameState # NoGame /\ FindById(m.gameState.players, playerId) # 0
    THEN LET m1 == [m EXCEPT !.gameState.players =
                        SelectSeq(@, LAMBDA pl : pl.id # playerId)]
         IN  Result(m1,
                    IF m.isHost THEN broadcastGameState(m1) ELSE <<>>,
                    "marked")
    ELSE Result(m, <<>>, "ignored")

handlePlayerLeft(m, playerId) ==
    IF m.gameState # NoGame /\ FindById(m.gameState.players, playerId) # 0
    THEN LET i == FindById(m.gameState.players, playerId)
             m1 == [m EXCEPT !.gameState.players[i].status = "disconnected"]
         IN  Result(m1,
                    IF m.isHost THEN broadcastGameState(m1) ELSE <<>>,
                    "marked")
    ELSE Result(m, <<>>, "ignored")

\* a variant of makeGuess below without the test of the local player id
makeGuessUnchecked(m, word, t) ==
    IF m.isHost /\ m.gameState # NoGame
    THEN handlePlayerGuess(m, m.currentPlayerId,
                           [word |-> word, commonLetters |-> 0], t)
    ELSE Result(m, << Msg("game:guess",
                          [playerId |-> m.currentPlayerId, word |-> word]) >>,
                "forwarded")

makeGuess(m, word, t) ==
    IF m.currentPlayerId = NoId
    THEN Result(m, <<>>, "no-player")
    ELSE IF m.isHost /\ m.gameState # NoGame
    THEN handlePlayerGuess(m, m.currentPlayerId,
                           [word |-> word, commonLetters |-> 0], t)
    ELSE Result(m, << Msg("game:guess",
                          [playerId |-> m.currentPlayerId, word |-> word]) >>,
                "forwarded")

----------------------------------------------------------------------------
(* BroadcastManager: the channel.  Every open BroadcastChannel object of a  *)
(* process is a key of chans[p] with its multiplicity; a message posted on  *)
(* one object reaches every other open object of the same name, in every    *)
(* process, the poster's own other objects included.  An inbox entry is a   *)
(* message with the number of the receiver's objects it is still due at and *)
(* the name of the channel.                                                 *)

\* objects of process r that a post by s on channel g reaches, ch being the
\* open objects at the time of the post
Copies(ch, r, s, g) == IF r = s THEN ch[r][g] - 1 ELSE ch[r][g]

\* P2PMessage: { type, data, senderId, timestamp }; no code reads timestamp,
\* which is left out
Stamp(s, msg, t) ==
    [type |-> msg.type, data |-> msg.data, senderId |-> bm[s].myId]

Entries(ch, r, s, g, msgs, t) ==
    IF g \notin GameIds \/ Copies(ch, r, s, g) = 0
    THEN <<>>
    ELSE [k \in DOMAIN msgs |->
             [msg |-> Stamp(s, msgs[k], t), n |-> Copies(ch, r, s, g), g |-> g]]

\* channel.postMessage of each message, in order, on the object named g
PostOn(box, ch, s, g, msgs, t) ==
    [r \in Procs |-> [box[r] EXCEPT ![s] = @ \o Entries(ch, r, s, g, msgs, t)]]

\* broadcast / send on the manager's current channel
PostAll(box, s, msgs, t) == PostOn(box, chans, s, bm[s].channel, msgs, t)

\* what of msgs actually leaves the process (nothing without a channel)
Posted(s, msgs) == IF bm[s].channel \notin GameIds THEN <<>> ELSE msgs

\* the model offers an operation only while the receivers' inboxes have room
Room(s, msgs) ==
    \A r \in Procs :
        Len(inbox[r][s]) + Len(Entries(chans, r, s, bm[s].channel, msgs, now))
            <= MaxInbox

\* the inbox of r after the head message from s has been handled once
Consumed(r, s) ==
    [inbox EXCEPT ![r][s] = IF Head(@).n > 1
                            THEN <<[Head(@) EXCEPT !.n = @ - 1]>> \o Tail(@)
                            ELSE Tail(@)]

Last(op, p, arg, outcome, sent) ==
    [op |-> op, proc |-> p, outcome |-> outcome]

OpenChannels(p) == {g \in GameIds : chans[p][g] > 0}

\* channel objects a process has open, over all names
RECURSIVE CountOver(_, _)
CountOver(p, gs) ==
    IF gs = {} THEN 0
    ELSE LET g == CHOOSE x \in gs : TRUE
         IN  chans[p][g] + CountOver(p, gs \ {g})

\* game ids with a jotto-host-<gameId> record in localStorage
\* a variant that finds a record for every game id
AdvertisedAlways == GameIds

Advertised == {h.gameId : h \in hostInfo}

\* generateGameId: a fresh identifier
UsedGameIds == Advertised \cup UNION {OpenChannels(p) : p \in Procs}
FreshGameId == IF "G1" \notin UsedGameIds THEN "G1"
               ELSE CHOOSE g \in GameIds \ UsedGameIds : TRUE

----------------------------------------------------------------------------
(* WebRTCManager: the direct peer-channel transport, seen from one process. *)
(* For each peer: the connectionState of the RTCPeerConnection made for it  *)
(* (pc), the readyState of its data channel (dc), whether the connections   *)
(* and dataChannels maps hold an entry for it, and the game:player-left     *)
(* events emitted for it since the connection was last connected (left).    *)

RtcPeers == {"id-b", "id-c"}

NoConnection == [pc |-> "none", dc |-> "none", inConnections |-> FALSE,
                 inDataChannels |-> FALSE, left |-> 0]

\* connectionState changes the browser reports through onconnectionstatechange
StateChanges ==
    { <<"new", "connecting">>, <<"connecting", "connected">>,
      <<"connecting", "failed">>, <<"connected", "disconnected">>,
      <<"disconnected", "connected">>, <<"disconnected", "failed">> }

\* connections.delete; dataChannels.delete; emit('game:player-left', peerId)
handlePeerDisconnect(c) ==
    [c EXCEPT !.inConnections = FALSE, !.inDataChannels = FALSE,
              !.left = @ + 1]

----------------------------------------------------------------------------
(* Initial state: the module singletons as constructed *)

\* Player | null
NoPlayer == [id |-> NoId, name |-> "", guesses |-> <<>>, timeUsed |-> 0,
             status |-> "null"]

\* useP2PGame before it is mounted.  gameState and currentPlayer hold
\* objects: alias says that gameState is the very object the manager holds
\* (what the manager changes in place shows through), otherwise gameState is
\* the value of an object nobody changes any more; playerIn says that
\* currentPlayer is the player playerId inside that gameState object,
\* otherwise player is the value of an object kept from an earlier one
NoHook == [mounted |-> FALSE, alias |-> FALSE, gameState |-> NoGame,
           playerIn |-> FALSE, playerId |-> NoId, player |-> NoPlayer,
           timeElapsed |-> 0, interval |-> FALSE]

\* players.find(p => p.id === playerId) || null
FindPlayer(gs, playerId) ==
    IF FindById(gs.players, playerId) # 0
    THEN gs.players[FindById(gs.players, playerId)]
    ELSE NoPlayer

\* what the page reads in gameState and currentPlayer, m being the manager
ViewState(h, m) == IF h.alias THEN m.gameState ELSE h.gameState
ViewPlayer(h, m) ==
    IF h.playerIn THEN FindPlayer(ViewState(h, m), h.playerId) ELSE h.player

\* the timer effect: the interval is set unless this holds, and cleared when
\* the effect runs again
TimerRuns(gs, player) ==
    ~(gs = NoGame \/ gs.status # "playing" \/ player = NoPlayer
      \/ player.status = "finished")

\* the manager drops its GameState object without an event to the page: the
\* page keeps the object as it is
Kept(h, m) ==
    IF h.mounted /\ h.alias
    THEN [h EXCEPT !.alias = FALSE, !.gameState = m.gameState]
    ELSE h

\* handleGameState(newGameState) of the page, which is the object the
\* manager's listener has just stored, and the timer effect after it
handleGameState(h, m, newGameState) ==
    IF ~h.mounted THEN h
    ELSE LET id == m.currentPlayerId
             found == id # NoId /\ FindById(newGameState.players, id) # 0
             player == IF found THEN FindPlayer(newGameState, id)
                       ELSE ViewPlayer(h, m)
         IN  [h EXCEPT !.alias = TRUE,
                       !.gameState = NoGame,
                       !.playerIn = found,
                       !.playerId = IF found THEN id ELSE NoId,
                       !.player = IF found THEN NoPlayer ELSE player,
                       !.interval = TimerRuns(newGameState, player)]

\* the page after its effects have run on mount, m being the manager then
Mounted(m) ==
    LET gs == m.gameState
        id == m.currentPlayerId
        found == gs # NoGame /\ id # NoId /\ FindById(gs.players, id) # 0
    IN  [mounted |-> TRUE, alias |-> gs # NoGame, gameState |-> NoGame,
         playerIn |-> found, playerId |-> IF found THEN id ELSE NoId,
         player |-> NoPlayer, timeElapsed |-> 0,
         interval |-> TimerRuns(gs, IF found THEN FindPlayer(gs, id) ELSE NoPlayer)]

Init ==
    /\ now = 1000
    /\ mgr = [p \in Procs |->
                [gameState |-> NoGame, isHost |-> FALSE, currentPlayerId |-> NoId]]
    /\ bm = [p \in Procs |->
                [channel |-> NoGameId, isHost |-> FALSE, gameId |-> NoGameId,
                 myId |-> IdOf[p]]]
    /\ chans = [p \in Procs |-> [g \in GameIds |-> 0]]
    /\ pending = [p \in Procs |-> <<>>]
    /\ inbox = [r \in Procs |-> [s \in Procs |-> <<>>]]
    /\ hostInfo = {}
    /\ savedName = [g \in GameIds |-> ""]
    /\ guessCalls = [p \in Procs |-> 0]
    /\ last = Last("init", "a", NoId, "", <<>>)
    /\ rtc = [q \in RtcPeers |-> NoConnection]
    /\ calc = NoCalc
    /\ hook = [p \in Procs |-> NoHook]

----------------------------------------------------------------------------
(* Operations *)

\* the clock advances by one and a half seconds
Tick ==
    /\ now < 1000 + 1500 * MaxTicks
    /\ now' = now + 1500
    /\ UNCHANGED <<hook, calc, rtc, mgr, bm, chans, pending, inbox, hostInfo, savedName, guessCalls, last>>

\* P2PGameManager.createGame with BroadcastManager.createGame
CreateGame(p, hostWord, playerName) ==
    IF ~validateWord(hostWord) \/ trim(playerName) = ""
    THEN /\ last' = Last("createGame", p, NoId, "threw", <<>>)
         /\ UNCHANGED <<hook, calc, rtc, now, mgr, bm, chans, pending, inbox, hostInfo, savedName, guessCalls>>
    ELSE
    /\ GameIds \ UsedGameIds # {}
    /\ LET gameId == FreshGameId
           m1 == [gameState |->
                    [gameId |-> gameId,
                     hostWord |-> toUpperCase(hostWord),
                     players |-> << NewPlayer(bm[p].myId, trim(playerName), now) >>,
                     status |-> "waiting",
                     startTime |-> now],
                  isHost |-> TRUE,
                  currentPlayerId |-> bm[p].myId]
           bm1 == [bm EXCEPT ![p].isHost = TRUE, ![p].gameId = gameId,
                             ![p].channel = gameId]
           chans1 == [chans EXCEPT ![p][gameId] = @ + 1]
       IN  /\ mgr' = [mgr EXCEPT ![p] = m1]
           /\ bm' = bm1
           /\ chans' = chans1
           /\ hostInfo' = hostInfo \cup {[gameId |-> gameId, hostId |-> bm[p].myId]}
           /\ savedName' = [savedName EXCEPT ![gameId] = trim(playerName)]
           /\ inbox' = PostOn(inbox, chans1, p, gameId, broadcastGameState(m1), now)
           /\ last' = Last("createGame", p, gameId, "created", broadcastGameState(m1))
           /\ hook' = [hook EXCEPT ![p] = Kept(@, mgr[p])]
           /\ UNCHANGED <<calc, rtc, now, pending, guessCalls>>

\* P2PGameManager.joinGame up to the 100 ms wait of BroadcastManager.joinGame
JoinGame(p, gameId, playerName) ==
    IF trim(playerName) = ""
    THEN /\ last' = Last("joinGame", p, gameId, "threw", <<>>)
         /\ UNCHANGED <<hook, calc, rtc, now, mgr, bm, chans, pending, inbox, hostInfo, savedName, guessCalls>>
    ELSE IF gameId \notin Advertised
    THEN /\ mgr' = [mgr EXCEPT ![p].currentPlayerId = bm[p].myId]
         /\ last' = Last("joinGame", p, gameId, "not-found", <<>>)
         /\ UNCHANGED <<hook, calc, rtc, now, bm, chans, pending, inbox, hostInfo, savedName, guessCalls>>
    ELSE
    /\ CountOver(p, GameIds) < MaxChannels
    /\ mgr' = [mgr EXCEPT ![p].currentPlayerId = bm[p].myId]
    /\ bm' = [bm EXCEPT ![p].gameId = gameId, ![p].channel = gameId]
    /\ chans' = [chans EXCEPT ![p][gameId] = @ + 1]
    /\ pending' = [pending EXCEPT ![p] =
                     Append(@, [gameId |-> gameId,
                                player |-> NewPlayer(bm[p].myId, trim(playerName), now)])]
    /\ last' = Last("joinGame", p, gameId, "waiting", <<>>)
    /\ UNCHANGED <<hook, calc, rtc, now, inbox, hostInfo, savedName, guessCalls>>

\* P2PGameManager.joinGame after the wait: remember the name, ask to join
JoinGameResume(p) ==
    /\ pending[p] # <<>>
    /\ LET j == Head(pending[p])
           msgs == << Msg("game:join-request", j.player) >>
       IN  /\ Room(p, msgs)
           /\ savedName' = [savedName EXCEPT ![j.gameId] = j.player.name]
           /\ inbox' = PostAll(inbox, p, msgs, now)
           /\ last' = Last("joinGame", p, j.gameId, "requested", Posted(p, msgs))
    /\ pending' = [pending EXCEPT ![p] = Tail(@)]
    /\ UNCHANGED <<hook, calc, rtc, now, mgr, bm, chans, hostInfo, guessCalls>>

\* the manager when the first post of a handler with result r threw
\* (postMessage on a closed BroadcastChannel object): the assignments made
\* before that post stay, those after it are not made; only handlePlayerGuess
\* assigns after a post, gameState.status after broadcasting game:finished
Interrupted(m, r) ==
    IF r.outcome = "correct"
    THEN [r.m EXCEPT !.gameState.status = m.gameState.status]
    ELSE r.m

\* the channel object of p is closed and the handler posts on it
ThrowsAt(p, r) == bm[p].channel = Closed /\ r.sent # <<>>

\* P2PGameManager.makeGuess
MakeGuess(p, word) ==
    LET r == makeGuess(mgr[p], word, now)
    IN  /\ guessCalls[p] < MaxGuesses
        /\ Room(p, r.sent)
        /\ guessCalls' = [guessCalls EXCEPT ![p] = @ + 1]
        /\ mgr' = [mgr EXCEPT ![p] = IF ThrowsAt(p, r) THEN Interrupted(@, r) ELSE r.m]
        /\ inbox' = PostAll(inbox, p, r.sent, now)
        /\ last' = Last("makeGuess", p, word,
                        IF ThrowsAt(p, r) THEN "threw" ELSE r.outcome,
                        Posted(p, r.sent))
        /\ UNCHANGED <<hook, calc, rtc, now, bm, chans, pending, hostInfo, savedName>>

\* the departure of a peer is signalled once: not again for a player already
\* marked
AlreadyLeft(players, playerId) ==
    /\ FindById(players, playerId) # 0
    /\ players[FindById(players, playerId)].status = "disconnected"

\* a peer-left signal of the transport, handed to handlePlayerLeft
PeerLeft(p, playerId) ==
    LET r == handlePlayerLeft(mgr[p], playerId)
    IN  /\ mgr[p].gameState # NoGame
        /\ ~AlreadyLeft(mgr[p].gameState.players, playerId)
        /\ Room(p, r.sent)
        /\ mgr' = [mgr EXCEPT ![p] = r.m]
        /\ inbox' = PostAll(inbox, p, r.sent, now)
        /\ last' = Last("handlePlayerLeft", p, playerId, r.outcome, Posted(p, r.sent))
        /\ UNCHANGED <<hook, calc, rtc, now, bm, chans, pending, hostInfo, savedName, guessCalls>>

\* channel.onmessage for the head message from s, sent by the receiver
\* itself (from another of its channel objects): dropped
OnOwnMessage(r, s) ==
    /\ inbox[r][s] # <<>>
    /\ Head(inbox[r][s]).msg.senderId = bm[r].myId
    /\ inbox' = Consumed(r, s)
    /\ last' = Last("onmessage", r, Head(inbox[r][s]).msg.type, "own", <<>>)
    /\ UNCHANGED <<hook, calc, rtc, now, mgr, bm, chans, pending, hostInfo, savedName, guessCalls>>

\* a variant of the test below that passes the receiver's own messages on
ReceivesAny(r, s, type) ==
    /\ inbox[r][s] # <<>>
    /\ Head(inbox[r][s]).msg.type = type

\* channel.onmessage passes the head message from s of this type to handleMessage
Receives(r, s, type) ==
    /\ inbox[r][s] # <<>>
    /\ Head(inbox[r][s]).msg.senderId # bm[r].myId
    /\ Head(inbox[r][s]).msg.type = type

\* the manager's listener ran at r with result res
ManagerHandled(r, s, op, arg, res) ==
    /\ Room(r, res.sent)
    /\ mgr' = [mgr EXCEPT ![r] = IF ThrowsAt(r, res) THEN Interrupted(@, res) ELSE res.m]
    /\ inbox' = PostAll(Consumed(r, s), r, res.sent, now)
    /\ last' = Last(op, r, arg, res.outcome, Posted(r, res.sent))
    /\ UNCHANGED <<calc, rtc, now, bm, chans, pending, hostInfo, savedName, guessCalls>>

\* the same, for a message that changes nothing in the page
Handled(r, s, op, arg, res) ==
    /\ ManagerHandled(r, s, op, arg, res)
    /\ UNCHANGED hook

\* handleMessage 'game:guess': listener(guessData.playerId, guessData.guess)
OnGuess(r, s) ==
    /\ Receives(r, s, "game:guess")
    /\ LET data == Head(inbox[r][s]).msg.data
           guess == IF "guess" \in DOMAIN data THEN data.guess ELSE Undefined
       IN  Handled(r, s, "handlePlayerGuess", data.playerId,
                   handlePlayerGuess(mgr[r], data.playerId, guess, now))

OnJoinRequest(r, s) ==
    /\ Receives(r, s, "game:join-request")
    /\ LET player == Head(inbox[r][s]).msg.data
       IN  Handled(r, s, "handleJoinRequest", player.id,
                   handleJoinRequest(mgr[r], player))

OnState(r, s) ==
    /\ Receives(r, s, "game:state")
    /\ ManagerHandled(r, s, "handleGameStateUpdate", NoId,
                      handleGameStateUpdate(mgr[r], Head(inbox[r][s]).msg.data))
    /\ hook' = [hook EXCEPT ![r] =
                  handleGameState(@, mgr[r], Head(inbox[r][s]).msg.data)]

OnPlayerJoined(r, s) ==
    /\ Receives(r, s, "game:player-joined")
    /\ LET player == Head(inbox[r][s]).msg.data
       IN  Handled(r, s, "handlePlayerJoined", player.id,
                   handlePlayerJoined(mgr[r], player, now))

\* handlePlayerFinished: nothing to do
OnFinished(r, s) ==
    /\ Receives(r, s, "game:finished")
    /\ Handled(r, s, "handlePlayerFinished", Head(inbox[r][s]).msg.data.playerId,
               Result(mgr[r], <<>>, "noted"))

\* handleError: console.error
OnError(r, s) ==
    /\ Receives(r, s, "game:error")
    /\ Handled(r, s, "handleError", Head(inbox[r][s]).msg.data.target,
               Result(mgr[r], <<>>, "logged"))

\* handleMessage 'game:leave': the manager subscribes no listener to it
OnLeave(r, s) ==
    /\ Receives(r, s, "game:leave")
    /\ Handled(r, s, "handleMessage", Head(inbox[r][s]).msg.data,
               Result(mgr[r], <<>>, "no-listener"))

\* BroadcastManager.generateId called again: another random id
NextId(id) == id \o "'"

\* the manager's fields with no session
NoSession == [gameState |-> NoGame, isHost |-> FALSE, currentPlayerId |-> NoId]

\* BroadcastManager.cleanup: a host announces the end of its game ...
cleanupSent(b) ==
    IF b.isHost /\ b.gameId # NoGameId
    THEN << Msg("game:terminated", "null") >>
    ELSE <<>>

\* ... and removes the jotto-host-<gameId> record
cleanupHostInfo(b) ==
    IF b.isHost /\ b.gameId # NoGameId
    THEN {h \in hostInfo : h.gameId # b.gameId}
    ELSE hostInfo

\* the inbox of p after its channel object named g is closed: what was due
\* at that object is not delivered
Undelivered(box, p, g) ==
    [box EXCEPT ![p] = [s \in Procs |-> SelectSeq(box[p][s], LAMBDA e : e.g # g)]]

\* channel.postMessage on a closed BroadcastChannel object throws
PostThrows(p, msgs) == bm[p].channel = Closed /\ msgs # <<>>

\* what leaveGame hands to the transport: its own leave message, then the
\* messages of cleanup
leaveSent(p) ==
    (IF mgr[p].currentPlayerId # NoId
     THEN << Msg("game:leave", mgr[p].currentPlayerId) >>
     ELSE <<>>)
    \o cleanupSent(bm[p])

\* the state after leaveGame has run through
AfterLeave(p) ==
    LET g == bm[p].channel
    IN  [mgr |-> [mgr EXCEPT ![p] = NoSession],
         bm |-> [bm EXCEPT ![p] =
                   [channel |-> IF g = NoGameId THEN NoGameId ELSE Closed,
                    isHost |-> FALSE, gameId |-> NoGameId,
                    myId |-> NextId(bm[p].myId)]],
         chans |-> IF g \in GameIds THEN [chans EXCEPT ![p][g] = 0] ELSE chans,
         inbox |-> Undelivered(PostAll(inbox, p, leaveSent(p), now), p, g),
         hostInfo |-> cleanupHostInfo(bm[p])]

\* leaveGame is offered while no joinGame call of p is suspended, p holds one
\* object of its channel, and the receivers have room
CanLeave(p) ==
    /\ pending[p] = <<>>
    /\ bm[p].channel \in GameIds => chans[p][bm[p].channel] = 1
    /\ Room(p, leaveSent(p))

\* P2PGameManager.leaveGame with BroadcastManager.disconnect
LeaveGame(p) ==
    IF PostThrows(p, leaveSent(p))
    THEN /\ last' = Last("leaveGame", p, NoId, "threw", <<>>)
         /\ UNCHANGED <<hook, calc, rtc, now, mgr, bm, chans, pending, inbox, hostInfo, savedName, guessCalls>>
    ELSE
    /\ CanLeave(p)
    /\ mgr' = AfterLeave(p).mgr
    /\ bm' = AfterLeave(p).bm
    /\ chans' = AfterLeave(p).chans
    /\ inbox' = AfterLeave(p).inbox
    /\ hostInfo' = AfterLeave(p).hostInfo
    /\ last' = Last("leaveGame", p, NoId, "left", Posted(p, leaveSent(p)))
    /\ hook' = [hook EXCEPT ![p] = Kept(@, mgr[p])]
    /\ UNCHANGED <<calc, rtc, now, pending, savedName, guessCalls>>

\* the page of p is unloaded: beforeunload runs cleanup (which stops at a
\* post on a closed channel), every channel object of the page is closed, and
\* the page loaded next constructs its managers again
Unloaded(p) ==
    LET msgs == cleanupSent(bm[p])
    IN  /\ Room(p, msgs)
        /\ inbox' = [PostAll(inbox, p, msgs, now) EXCEPT
                        ![p] = [q \in Procs |-> <<>>]]
        /\ hostInfo' = IF PostThrows(p, msgs) THEN hostInfo
                       ELSE cleanupHostInfo(bm[p])
        /\ chans' = [chans EXCEPT ![p] = [g \in GameIds |-> 0]]
        /\ bm' = [bm EXCEPT ![p] =
                    [channel |-> NoGameId, isHost |-> FALSE, gameId |-> NoGameId,
                     myId |-> NextId(bm[p].myId)]]
        /\ mgr' = [mgr EXCEPT ![p] = NoSession]
        /\ pending' = [pending EXCEPT ![p] = <<>>]
        /\ hook' = [hook EXCEPT ![p] = NoHook]
        /\ UNCHANGED <<calc, rtc, now, savedName, guessCalls>>

\* handleGameTerminated: the session is forgotten and the page goes to '/'
OnTerminated(r, s) ==
    /\ Receives(r, s, "game:terminated")
    /\ Unloaded(r)
    /\ last' = Last("handleGameTerminated", r, NoId, "redirected",
                    Posted(r, cleanupSent(bm[r])))

\* the tab of p is closed or reloaded
PageUnload(p) ==
    /\ Unloaded(p)
    /\ last' = Last("beforeunload", p, NoId, "unloaded", Posted(p, cleanupSent(bm[p])))

\* document visibilitychange to hidden: a host runs cleanup
PageHidden(p) ==
    LET msgs == cleanupSent(bm[p])
        g == bm[p].channel
    IN  IF ~bm[p].isHost
        THEN /\ last' = Last("visibilitychange", p, NoId, "ignored", <<>>)
             /\ UNCHANGED <<hook, calc, rtc, now, mgr, bm, chans, pending, inbox, hostInfo, savedName, guessCalls>>
        ELSE IF PostThrows(p, msgs)
        THEN /\ last' = Last("visibilitychange", p, NoId, "threw", <<>>)
             /\ UNCHANGED <<hook, calc, rtc, now, mgr, bm, chans, pending, inbox, hostInfo, savedName, guessCalls>>
        ELSE
        /\ g \in GameIds => chans[p][g] = 1
        /\ Room(p, msgs)
        /\ inbox' = Undelivered(PostAll(inbox, p, msgs, now), p, g)
        /\ hostInfo' = cleanupHostInfo(bm[p])
        /\ chans' = IF g \in GameIds THEN [chans EXCEPT ![p][g] = 0] ELSE chans
        /\ bm' = [bm EXCEPT ![p].channel = IF g = NoGameId THEN NoGameId ELSE Closed]
        /\ last' = Last("visibilitychange", p, NoId, "cleaned", Posted(p, msgs))
        /\ UNCHANGED <<hook, calc, rtc, now, mgr, pending, savedName, guessCalls>>

\* isConnectedToGame
isConnectedToGame(m, gameId) ==
    m.gameState # NoGame /\ m.gameState.gameId = gameId /\ m.currentPlayerId # NoId

\* P2PGameManager.reconnectToGame up to the 100 ms wait of the joinGame it
\* calls: the advertisement is looked up, a session of another game is left,
\* the remembered name is looked up, and joinGame starts with that name
reconnectToGame(p, gameId) ==
    IF isConnectedToGame(mgr[p], gameId)
    THEN /\ last' = Last("reconnectToGame", p, gameId, "connected", <<>>)
         /\ UNCHANGED <<calc, rtc, now, mgr, bm, chans, pending, inbox, hostInfo, savedName, guessCalls>>
    ELSE IF gameId \notin Advertised
    THEN /\ last' = Last("reconnectToGame", p, gameId, "not-found", <<>>)
         /\ UNCHANGED <<calc, rtc, now, mgr, bm, chans, pending, inbox, hostInfo, savedName, guessCalls>>
    ELSE
    LET leaves == mgr[p].gameState # NoGame /\ mgr[p].gameState.gameId # gameId
        threw == leaves /\ PostThrows(p, leaveSent(p))
        left == leaves /\ ~threw
        mgr1 == IF left THEN AfterLeave(p).mgr ELSE mgr
        bm1 == IF left THEN AfterLeave(p).bm ELSE bm
        chans1 == IF left THEN AfterLeave(p).chans ELSE chans
        inbox1 == IF left THEN AfterLeave(p).inbox ELSE inbox
        hostInfo1 == IF left THEN AfterLeave(p).hostInfo ELSE hostInfo
        name == savedName[gameId]
        found == gameId \in {h.gameId : h \in hostInfo1}
        joins == ~threw /\ name # "" /\ found
    IN  /\ left => CanLeave(p)
        /\ joins => CountOver(p, GameIds) < MaxChannels
        /\ mgr' = IF ~threw /\ name # ""
                  THEN [mgr1 EXCEPT ![p].currentPlayerId = bm1[p].myId]
                  ELSE mgr1
        /\ bm' = IF joins
                 THEN [bm1 EXCEPT ![p].gameId = gameId, ![p].channel = gameId]
                 ELSE bm1
        /\ chans' = IF joins THEN [chans1 EXCEPT ![p][gameId] = @ + 1] ELSE chans1
        /\ pending' = IF joins
                      THEN [pending EXCEPT ![p] =
                              Append(@, [gameId |-> gameId,
                                         player |-> NewPlayer(bm1[p].myId, trim(name), now)])]
                      ELSE pending
        /\ inbox' = inbox1
        /\ hostInfo' = hostInfo1
        /\ last' = Last("reconnectToGame", p, gameId,
                        IF threw THEN "threw"
                        ELSE IF name = "" THEN "cannot-reconnect"
                        ELSE IF found THEN "waiting" ELSE "not-found",
                        <<>>)
        /\ UNCHANGED <<calc, rtc, now, savedName, guessCalls>>

\* reconnectToGame called by anything but the page as it mounts: a page
\* that shows the GameState the manager drops keeps the object
ReconnectToGame(p, gameId) ==
    /\ reconnectToGame(p, gameId)
    /\ hook' = [hook EXCEPT ![p] =
                  IF mgr[p].gameState # NoGame /\ mgr'[p].gameState = NoGame
                  THEN Kept(@, mgr[p])
                  ELSE @]

\* the game page of gameId is mounted at p: the connection effect takes the
\* manager's GameState if the manager is connected to gameId and calls
\* reconnectToGame if not, the listener effect takes the GameState the
\* manager holds after that, and the timer effect runs on the result
HookMount(p, gameId) ==
    /\ ~hook[p].mounted
    /\ IF isConnectedToGame(mgr[p], gameId)
       THEN /\ last' = Last("useP2PGame", p, gameId, "connected", <<>>)
            /\ UNCHANGED <<calc, rtc, now, mgr, bm, chans, pending, inbox, hostInfo, savedName, guessCalls>>
       ELSE reconnectToGame(p, gameId)
    /\ hook' = [hook EXCEPT ![p] = Mounted(mgr'[p])]

\* the game page is unmounted: the cleanup of the timer effect clears the
\* interval, and the state of the page is gone
HookUnmount(p) ==
    /\ hook[p].mounted
    /\ hook' = [hook EXCEPT ![p] = NoHook]
    /\ last' = Last("useP2PGame", p, NoId, "unmounted", <<>>)
    /\ UNCHANGED <<calc, rtc, now, mgr, bm, chans, pending, inbox, hostInfo, savedName, guessCalls>>

\* the interval of the timer effect fires: setTimeElapsed(prev => prev + 1)
HookTick(p) ==
    /\ hook[p].mounted
    /\ hook[p].interval
    /\ hook[p].timeElapsed < MaxElapsed
    /\ hook' = [hook EXCEPT ![p].timeElapsed = @ + 1]
    /\ last' = Last("setInterval", p, NoId, "tick", <<>>)
    /\ UNCHANGED <<calc, rtc, now, mgr, bm, chans, pending, inbox, hostInfo, savedName, guessCalls>>

\* WebRTCManager.joinGame without offer data: createPeerConnection(q, true)
RtcConnect(q) ==
    /\ rtc[q].pc = "none"
    /\ rtc' = [rtc EXCEPT ![q] = [pc |-> "new", dc |-> "connecting",
                                  inConnections |-> TRUE,
                                  inDataChannels |-> TRUE, left |-> 0]]
    /\ last' = Last("createPeerConnection", "a", q, "created", <<>>)
    /\ UNCHANGED <<hook, calc, now, mgr, bm, chans, pending, inbox, hostInfo, savedName, guessCalls>>

\* pc.onconnectionstatechange with the new connectionState
RtcStateChange(q, state) ==
    /\ <<rtc[q].pc, state>> \in StateChanges
    /\ LET c == [rtc[q] EXCEPT !.pc = state,
                               !.left = IF state = "connected" THEN 0 ELSE @]
       IN  rtc' = [rtc EXCEPT ![q] = IF state \in {"failed", "disconnected"}
                                    THEN handlePeerDisconnect(c)
                                    ELSE c]
    /\ last' = Last("onconnectionstatechange", "a", q, state, <<>>)
    /\ UNCHANGED <<hook, calc, now, mgr, bm, chans, pending, inbox, hostInfo, savedName, guessCalls>>

\* channel.onopen: console.log
RtcChannelOpen(q) ==
    /\ rtc[q].dc = "connecting"
    /\ rtc[q].pc = "connected"
    /\ rtc' = [rtc EXCEPT ![q].dc = "open"]
    /\ last' = Last("onopen", "a", q, "open", <<>>)
    /\ UNCHANGED <<hook, calc, now, mgr, bm, chans, pending, inbox, hostInfo, savedName, guessCalls>>

\* channel.onclose: the peer closed the channel, or the connection under it
\* is gone
RtcChannelClose(q) ==
    /\ rtc[q].dc = "open"
    /\ rtc' = [rtc EXCEPT ![q] = handlePeerDisconnect([@ EXCEPT !.dc = "closed"])]
    /\ last' = Last("onclose", "a", q, "closed", <<>>)
    /\ UNCHANGED <<hook, calc, now, mgr, bm, chans, pending, inbox, hostInfo, savedName, guessCalls>>

\* WebRTCManager.disconnect: pc.close() for every entry of connections, then
\* both maps are cleared; whether a data channel closed this way still gets
\* its close event is up to the browser
RtcDisconnect ==
    /\ \E q \in RtcPeers : rtc[q].inConnections
    /\ \E fired \in SUBSET {q \in RtcPeers : rtc[q].inConnections /\ rtc[q].dc = "open"} :
          rtc' = [q \in RtcPeers |->
                    IF rtc[q].inConnections
                    THEN LET c == [rtc[q] EXCEPT !.pc = "closed", !.dc = "closed",
                                                 !.inConnections = FALSE,
                                                 !.inDataChannels = FALSE]
                         IN  IF q \in fired THEN handlePeerDisconnect(c) ELSE c
                    ELSE [rtc[q] EXCEPT !.inDataChannels = FALSE]]
    /\ last' = Last("disconnect", "a", NoId, "closed", <<>>)
    /\ UNCHANGED <<hook, calc, now, mgr, bm, chans, pending, inbox, hostInfo, savedName, guessCalls>>

----------------------------------------------------------------------------
(* One session: process a creates the game, process b joins it once *)

Host == "a"
Peer == "b"
Session == {Host, Peer}

SecretInputs == {HOUSE}
HostNames == {"Alice"}
PeerNames == {"Bob", "Alice"}
GuessInputs == [a |-> {HOUSE, MOUSE, HOU5E}, b |-> {MOUSE, HOU5E}]

\* the transport signals the departure of a peer that had connected
Connected(p, q) == p # q /\ OpenChannels(p) \cap OpenChannels(q) # {}

Next ==
    \/ Tick
    \/ \E w \in SecretInputs, n \in HostNames :
          mgr[Host].gameState = NoGame /\ CreateGame(Host, w, n)
    \/ \E g \in Advertised, n \in PeerNames :
          OpenChannels(Peer) = {} /\ JoinGame(Peer, g, n)
    \/ JoinGameResume(Peer)
    \/ \E p \in Session : \E w \in GuessInputs[p] : MakeGuess(p, w)
    \/ Connected(Host, Peer) /\ PeerLeft(Host, IdOf[Peer])
    \/ \E r \in Session, s \in Session :
          \/ OnGuess(r, s)
          \/ OnJoinRequest(r, s)
          \/ OnState(r, s)
          \/ OnPlayerJoined(r, s)
          \/ OnFinished(r, s)
          \/ OnError(r, s)

Spec == Init /\ [][Next]_vars

----------------------------------------------------------------------------
(* One peer joining twice: process b joins the game of process a under two  *)
(* names without leaving in between                                         *)

RejoinNames == {"Bob", "Bobby"}

NextRejoin ==
    \/ \E w \in SecretInputs, n \in HostNames :
          mgr[Host].gameState = NoGame /\ CreateGame(Host, w, n)
    \/ \E g \in Advertised, n \in RejoinNames : JoinGame(Peer, g, n)
    \/ JoinGameResume(Peer)
    \/ \E r \in Session, s \in Session :
          \/ OnOwnMessage(r, s)
          \/ OnJoinRequest(r, s)
          \/ OnState(r, s)
          \/ OnPlayerJoined(r, s)
          \/ OnError(r, s)

SpecRejoin == Init /\ [][NextRejoin]_vars

----------------------------------------------------------------------------
(* Two sessions: process a creates a game, process b creates another, then  *)
(* a joins the game of b without leaving its own, and process c joins the   *)
(* game of b                                                                *)

Second == "b"
Third == "c"

SecondSecrets == {MOUSE}
SecondNames == {"Bob"}
JoinerNames == [a |-> {"Bob"}, c |-> {"Carol"}]
MultiGuessInputs == {HOUSE}

\* process c handles every message as soon as it is delivered: the others
\* act while nothing waits at c
Quiet == \A s \in Procs : inbox[Third][s] = <<>>
Turn(r) == r = Third \/ Quiet

NextMulti ==
    \/ \E w \in SecretInputs, n \in HostNames :
          mgr[Host].gameState = NoGame /\ CreateGame(Host, w, n)
    \/ \E w \in SecondSecrets, n \in SecondNames :
          /\ mgr[Host].gameState # NoGame
          /\ mgr[Second].gameState = NoGame
          /\ CreateGame(Second, w, n)
    \/ \E p \in {Host, Third} : \E n \in JoinerNames[p] :
          /\ Quiet
          /\ bm[Second].gameId \in Advertised
          /\ chans[p][bm[Second].gameId] = 0
          /\ JoinGame(p, bm[Second].gameId, n)
    \/ \E p \in {Host, Third} : Quiet /\ JoinGameResume(p)
    \/ \E w \in MultiGuessInputs : Quiet /\ MakeGuess(Host, w)
    \/ Quiet /\ Connected(Host, Third) /\ PeerLeft(Host, IdOf[Third])
    \/ \E r \in Procs, s \in Procs :
          \/ Turn(r) /\ OnGuess(r, s)
          \/ Turn(r) /\ OnJoinRequest(r, s)
          \/ Turn(r) /\ OnState(r, s)
          \/ Turn(r) /\ OnPlayerJoined(r, s)
          \/ Turn(r) /\ OnFinished(r, s)
          \/ Turn(r) /\ OnError(r, s)

SpecMulti == Init /\ [][NextMulti]_vars

----------------------------------------------------------------------------
(* Departures: process a creates the game, process b joins it once as Bob;  *)
(* either may leave, and the transport may signal to either that the other  *)
(* is gone                                                                  *)

LeaveNames == {"Bob"}
LeaveGuessInputs == {HOUSE}

NextLeave ==
    \/ \E w \in SecretInputs, n \in HostNames :
          /\ mgr[Host].gameState = NoGame
          /\ bm[Host].myId = IdOf[Host]
          /\ CreateGame(Host, w, n)
    \/ \E g \in Advertised, n \in LeaveNames :
          /\ OpenChannels(Peer) = {}
          /\ bm[Peer].myId = IdOf[Peer]
          /\ JoinGame(Peer, g, n)
    \/ JoinGameResume(Peer)
    \/ \E p \in Session, w \in LeaveGuessInputs : MakeGuess(p, w)
    \/ \E p \in Session : OpenChannels(p) # {} /\ LeaveGame(p)
    \/ \E p \in Session, q \in Session :
          Connected(p, q) /\ PeerLeft(p, bm[q].myId)
    \/ \E r \in Session, s \in Session :
          \/ OnGuess(r, s)
          \/ OnJoinRequest(r, s)
          \/ OnState(r, s)
          \/ OnPlayerJoined(r, s)
          \/ OnFinished(r, s)
          \/ OnLeave(r, s)
          \/ OnTerminated(r, s)

SpecLeave == Init /\ [][NextLeave]_vars

\* the event loop dispatches every message event queued at a channel object
Deliver ==
    \E r \in Session, s \in Session :
        \/ OnGuess(r, s)
        \/ OnJoinRequest(r, s)
        \/ OnState(r, s)
        \/ OnPlayerJoined(r, s)
        \/ OnFinished(r, s)
        \/ OnLeave(r, s)
        \/ OnTerminated(r, s)

\* the timer of the 100 ms wait fires
Resume == JoinGameResume(Peer)

SpecLeaveFair == SpecLeave /\ WF_vars(Deliver) /\ WF_vars(Resume)

----------------------------------------------------------------------------
(* Entering and ending sessions: process a creates games, process b joins   *)
(* or reconnects to a game id; either may leave, be hidden or be unloaded   *)

EntrySecrets == {HOUSE, HOU5E}
EntryNames == [a |-> {"Alice", " "}, b |-> {"Bob", " "}]

\* the ids generateId gives process p, in order
RECURSIVE IdGen(_, _)
IdGen(p, k) == IF k = 0 THEN IdOf[p] ELSE NextId(IdGen(p, k - 1))

\* p may still enter a session
MayEnter(p) == bm[p].myId \in {IdGen(p, k) : k \in 0..(MaxSessions - 1)}

\* p has something to end
InSession(p) == OpenChannels(p) # {} \/ mgr[p] # NoSession

\* every message is handled, and every wait of joinGame is over, before the
\* next operation is requested
Calm ==
    /\ \A r \in Procs, s \in Procs : inbox[r][s] = <<>>
    /\ \A p \in Procs : pending[p] = <<>>

NextEntry ==
    \/ \E w \in EntrySecrets, n \in EntryNames[Host] :
          /\ Calm
          /\ MayEnter(Host)
          /\ mgr[Host].gameState = NoGame
          /\ OpenChannels(Host) = {}
          /\ CreateGame(Host, w, n)
    \/ \E g \in GameIds, n \in EntryNames[Peer] :
          /\ Calm
          /\ MayEnter(Peer)
          /\ chans[Peer][g] = 0
          /\ JoinGame(Peer, g, n)
    \/ JoinGameResume(Peer)
    \/ \E g \in GameIds :
          /\ Calm
          /\ MayEnter(Peer)
          /\ chans[Peer][g] = 0
          /\ ReconnectToGame(Peer, g)
    \/ \E p \in Session : Calm /\ InSession(p) /\ LeaveGame(p)
    \/ \E p \in Session : Calm /\ InSession(p) /\ PageHidden(p)
    \/ \E p \in Session : Calm /\ InSession(p) /\ PageUnload(p)
    \/ \E r \in Session, s \in Session :
          \/ OnJoinRequest(r, s)
          \/ OnState(r, s)
          \/ OnPlayerJoined(r, s)
          \/ OnError(r, s)
          \/ OnLeave(r, s)
          \/ OnTerminated(r, s)

SpecEntry == Init /\ [][NextEntry]_vars

----------------------------------------------------------------------------
(* A host that joins elsewhere and then ends: process a creates a game,     *)
(* process b creates another, a asks to join the game of b under the name   *)
(* b plays under, process c joins either game; then a leaves, is hidden or  *)
(* is unloaded                                                              *)

ThirdNames == {"Carol"}

NextHosts ==
    \/ \E w \in SecretInputs, n \in HostNames :
          /\ mgr[Host].gameState = NoGame
          /\ bm[Host].myId = IdOf[Host]
          /\ CreateGame(Host, w, n)
    \/ \E w \in SecondSecrets, n \in SecondNames :
          /\ Calm
          /\ mgr[Host].gameState # NoGame
          /\ mgr[Second].gameState = NoGame
          /\ bm[Second].myId = IdOf[Second]
          /\ CreateGame(Second, w, n)
    \/ \E n \in SecondNames :
          /\ Calm
          /\ bm[Host].myId = IdOf[Host]
          /\ bm[Second].gameId \in Advertised
          /\ chans[Host][bm[Second].gameId] = 0
          /\ JoinGame(Host, bm[Second].gameId, n)
    \/ \E g \in GameIds, n \in ThirdNames :
          /\ Calm
          /\ bm[Third].myId = IdOf[Third]
          /\ chans[Third][g] = 0
          /\ JoinGame(Third, g, n)
    \/ \E p \in {Host, Third} : JoinGameResume(p)
    \/ Calm /\ MayEnter(Host) /\ InSession(Host) /\ LeaveGame(Host)
    \/ Calm /\ MayEnter(Host) /\ InSession(Host) /\ PageHidden(Host)
    \/ Calm /\ MayEnter(Host) /\ InSession(Host) /\ PageUnload(Host)
    \/ \E r \in Procs, s \in Procs :
          \/ OnJoinRequest(r, s)
          \/ OnState(r, s)
          \/ OnPlayerJoined(r, s)
          \/ OnError(r, s)
          \/ OnLeave(r, s)
          \/ OnTerminated(r, s)

SpecHosts == Init /\ [][NextHosts]_vars

----------------------------------------------------------------------------
(* The game page: process a creates a game and shows its page, process b   *)
(* creates another, a asks to join the game of b under the name b plays    *)
(* under, and process c joins the game of b; a page is mounted again when  *)
(* the user comes back to it inside the application, which keeps the       *)
(* manager                                                                  *)

PageGuessInputs == {HOUSE}
Pages == {Host, Third}

\* processes b and c handle every message as soon as it is delivered: a acts,
\* and operations are requested, while nothing waits at b or c
Settled == \A r \in {Second, Third}, s \in Procs : inbox[r][s] = <<>>
Ready(r) == r # Host \/ Settled

NextHook ==
    \/ \E w \in SecretInputs, n \in HostNames :
          /\ mgr[Host].gameState = NoGame
          /\ bm[Host].myId = IdOf[Host]
          /\ CreateGame(Host, w, n)
    \/ \E w \in SecondSecrets, n \in SecondNames :
          /\ Calm
          /\ hook[Host].mounted
          /\ mgr[Second].gameState = NoGame
          /\ CreateGame(Second, w, n)
    \/ \E p \in Pages : \E n \in JoinerNames[p] :
          /\ Calm
          /\ bm[Second].gameId \in Advertised
          /\ chans[p][bm[Second].gameId] = 0
          /\ JoinGame(p, bm[Second].gameId, n)
    \/ \E p \in Pages : Settled /\ JoinGameResume(p)
    \/ \E p \in Pages, w \in PageGuessInputs : Settled /\ MakeGuess(p, w)
    \/ \E p \in Pages, g \in GameIds :
          /\ Settled
          /\ isConnectedToGame(mgr[p], g)
          /\ HookMount(p, g)
    \/ \E p \in Pages : Settled /\ HookUnmount(p)
    \/ \E p \in Pages : HookTick(p)
    \/ \E r \in Procs, s \in Procs :
          \/ Ready(r) /\ OnGuess(r, s)
          \/ Ready(r) /\ OnJoinRequest(r, s)
          \/ Ready(r) /\ OnState(r, s)
          \/ Ready(r) /\ OnPlayerJoined(r, s)
          \/ Ready(r) /\ OnFinished(r, s)
          \/ Ready(r) /\ OnError(r, s)

SpecHook == Init /\ [][NextHook]_vars

----------------------------------------------------------------------------
(* Scoring: calculateCommonLetters applied to a pair of words, in both      *)
(* orders                                                                   *)

\* the words the function is applied to: every word of five letters over
\* E, e and R, and the words of the examples
CalcLetters == {"E", "e", "R"}
CalcWords ==
    [1..WordLength -> CalcLetters] \cup {HOUSE, MOUSE, ERROR, ARROW, ELITE}

InitCalc ==
    /\ now = 1000
    /\ mgr = [p \in Procs |->
                [gameState |-> NoGame, isHost |-> FALSE, currentPlayerId |-> NoId]]
    /\ bm = [p \in Procs |->
                [channel |-> NoGameId, isHost |-> FALSE, gameId |-> NoGameId,
                 myId |-> IdOf[p]]]
    /\ chans = [p \in Procs |-> [g \in GameIds |-> 0]]
    /\ pending = [p \in Procs |-> <<>>]
    /\ inbox = [r \in Procs |-> [s \in Procs |-> <<>>]]
    /\ hostInfo = {}
    /\ savedName = [g \in GameIds |-> ""]
    /\ guessCalls = [p \in Procs |-> 0]
    /\ last = Last("init", "a", NoId, "", <<>>)
    /\ rtc = [q \in RtcPeers |-> NoConnection]
    /\ hook = [p \in Procs |-> NoHook]
    /\ \E hostWord \in CalcWords, guessWord \in CalcWords :
          calc = [NoCalc EXCEPT !.hostWord = hostWord, !.guessWord = guessWord]

\* calculateCommonLetters(hostWord, guessWord) and, with the arguments
\* swapped, calculateCommonLetters(guessWord, hostWord)
Calculate ==
    /\ calc.common = NoCalc.common
    /\ calc' = [calc EXCEPT
                  !.common = calculateCommonLetters(calc.hostWord, calc.guessWord),
                  !.swapped = calculateCommonLetters(calc.guessWord, calc.hostWord)]
    /\ UNCHANGED <<now, mgr, bm, chans, pending, inbox, hostInfo, savedName,
                   guessCalls, last, rtc, hook>>

NextCalc == Calculate

SpecCalc == InitCalc /\ [][NextCalc]_vars

----------------------------------------------------------------------------
(* The direct transport of one process and the connections to its peers *)

ReportedStates == {"connecting", "connected", "disconnected", "failed"}

NextRtc ==
    \/ \E q \in RtcPeers : RtcConnect(q)
    \/ \E q \in RtcPeers, state \in ReportedStates : RtcStateChange(q, state)
    \/ \E q \in RtcPeers : RtcChannelOpen(q)
    \/ \E q \in RtcPeers : RtcChannelClose(q)
    \/ RtcDisconnect

SpecRtc == Init /\ [][NextRtc]_vars

----------------------------------------------------------------------------
(* Properties *)

C5_Rank(status) ==
    CASE status = "waiting" -> 0
      [] status = "playing" -> 1
      [] status = "finished" -> 2

\* p holds the GameState of a session it created
IsHostOf(p) ==
    /\ mgr[p].isHost
    /\ mgr[p].gameState # NoGame
    /\ [gameId |-> mgr[p].gameState.gameId, hostId |-> bm[p].myId] \in hostInfo

\* the same, and after the step p still holds the GameState of that session
KeepsSession(p) ==
    /\ IsHostOf(p)
    /\ mgr'[p].gameState # NoGame
    /\ mgr'[p].gameState.gameId = mgr[p].gameState.gameId

C7_SomeActive(players) == \E i \in DOMAIN players : players[i].status # "disconnected"

AllGuessInputs == {HOUSE, MOUSE, HOU5E}

\* the step is p processing a guess: its own, or one delivered to it
GuessStep(p) ==
    \/ \E w \in AllGuessInputs : MakeGuess(p, w)
    \/ \E s \in Procs : OnGuess(p, s)

\* the step is p handling a join request, which it admits
AdmitStep(p) ==
    /\ \E s \in Procs : OnJoinRequest(p, s)
    /\ last'.outcome = "admitted"

\* the record of the player with this id in p's GameState
PlayerOf(gs, id) == gs.players[FindById(gs.players, id)]

\* C1: every game:state message on the transport carries the placeholder in
\* hostWord, and no process that is not a host holds a GameState whose
\* hostWord is the secret the host of that session configured
C1_Masking ==
    /\ \A r \in Procs, s \in Procs : \A k \in DOMAIN inbox[r][s] :
          inbox[r][s][k].msg.type = "game:state"
              => inbox[r][s][k].msg.data.hostWord = Placeholder
    /\ \A p \in Procs, h \in Procs :
          (/\ IsHostOf(h)
           /\ ~mgr[p].isHost
           /\ mgr[p].gameState # NoGame
           /\ mgr[p].gameState.gameId = mgr[h].gameState.gameId)
          => mgr[p].gameState.hostWord # mgr[h].gameState.hostWord

\* C2: in the session of Alice (secret HOUSE) and Bob, admitting Bob makes
\* the status playing; Bob's delivered guess of a well-formed word is recorded
\* for Bob with its common-letter count (4 for MOUSE, Bob still playing; HOUSE
\* makes Bob finished and leaves the session playing while Alice plays); and
\* Alice's HOUSE after that makes Alice and the session finished
C2_Step ==
    LET gs  == mgr[Host].gameState
        gs1 == mgr'[Host].gameState
        bob == IdOf[Peer]
        data == Head(inbox[Host][Peer]).msg.data
    IN  /\ AdmitStep(Host) => gs1.status = "playing"
        /\ (/\ OnGuess(Host, Peer)
            /\ IsHostOf(Host)
            /\ FindById(gs.players, bob) # 0
            /\ PlayerOf(gs, bob).status = "playing"
            /\ "word" \in DOMAIN data
            /\ validateWord(data.word))
           => /\ PlayerOf(gs1, bob).guesses =
                    Append(PlayerOf(gs, bob).guesses,
                           [word |-> toUpperCase(data.word),
                            commonLetters |->
                                calculateCommonLetters(gs.hostWord, toUpperCase(data.word))])
              /\ data.word = MOUSE
                    => /\ PlayerOf(gs1, bob).guesses[Len(PlayerOf(gs1, bob).guesses)].commonLetters = 4
                       /\ PlayerOf(gs1, bob).status = "playing"
              /\ data.word = HOUSE
                    => /\ PlayerOf(gs1, bob).status = "finished"
                       /\ PlayerOf(gs, IdOf[Host]).status = "playing"
                              => gs1.status = "playing"
        /\ (/\ MakeGuess(Host, HOUSE)
            /\ IsHostOf(Host)
            /\ PlayerOf(gs, IdOf[Host]).status = "playing"
            /\ FindById(gs.players, bob) # 0
            /\ PlayerOf(gs, bob).status = "finished")
           => /\ PlayerOf(gs1, IdOf[Host]).status = "finished"
              /\ gs1.status = "finished"
C2_Scenario == [][C2_Step]_vars

\* C3: the admission that brings the players to two moves the status from
\* waiting to playing in that step, and the status becomes playing in no
\* other step
C3_Step ==
    \A p \in Procs :
        LET gs  == mgr[p].gameState
            gs1 == mgr'[p].gameState
        IN  /\ (/\ IsHostOf(p)
                /\ AdmitStep(p)
                /\ gs.status = "waiting"
                /\ Len(gs.players) = 1
                /\ Len(gs1.players) = 2)
               => gs1.status = "playing"
            /\ (/\ KeepsSession(p)
                /\ gs.status # "playing"
                /\ gs1.status = "playing")
               => /\ gs.status = "waiting"
                  /\ Len(gs.players) = 1
                  /\ Len(gs1.players) = 2
C3_Transition == [][C3_Step]_vars

\* C4: startTime has no value while the status is waiting, gets its value in
\* the step from waiting to playing, and never changes once it has a value
C4_Step ==
    \A p \in Procs :
        LET gs  == mgr[p].gameState
            gs1 == mgr'[p].gameState
        IN  /\ (mgr'[p].isHost /\ gs1 # NoGame /\ gs1.status = "waiting")
               => gs1.startTime = NoTime
            /\ (KeepsSession(p) /\ gs.startTime # NoTime)
               => gs1.startTime = gs.startTime
            /\ (KeepsSession(p) /\ gs.startTime = NoTime /\ gs1.startTime # NoTime)
               => gs.status = "waiting" /\ gs1.status = "playing"
C4_StartTime == [][C4_Step]_vars

\* C5: the status of the host's GameState never moves to an earlier value in
\* the order waiting < playing < finished, and finished stays finished while
\* the host holds the GameState of the session
C5_Step ==
    \A p \in Procs :
        KeepsSession(p)
            => C5_Rank(mgr'[p].gameState.status) >= C5_Rank(mgr[p].gameState.status)
C5_Monotone == [][C5_Step]_vars

\* C6: when the status at the host is finished, every player that is not
\* disconnected is finished
C6_FinishedMeansAll ==
    \A p \in Procs :
        (IsHostOf(p) /\ mgr[p].gameState.status = "finished")
            => \A i \in DOMAIN mgr[p].gameState.players :
                  mgr[p].gameState.players[i].status \in {"finished", "disconnected"}

\* C7: a host step in status playing that processes a guess or marks a player
\* disconnected, and leaves some player not disconnected and every such
\* player finished, ends with the session finished
C7_Step ==
    \A p \in Procs :
        (/\ KeepsSession(p)
         /\ mgr[p].gameState.status = "playing"
         /\ GuessStep(p) \/ \E q \in Procs : PeerLeft(p, IdOf[q])
         /\ C7_SomeActive(mgr'[p].gameState.players)
         /\ AllActiveFinished(mgr'[p].gameState.players))
        => mgr'[p].gameState.status = "finished"
C7_Finishes == [][C7_Step]_vars

\* C8: a guess processed by the host while the status is not playing changes
\* no player record and not the status, and the status never goes from
\* waiting to finished in one step
C8_Step ==
    \A p \in Procs :
        LET gs  == mgr[p].gameState
            gs1 == mgr'[p].gameState
        IN  /\ (KeepsSession(p) /\ GuessStep(p) /\ gs.status # "playing")
               => gs1.players = gs.players /\ gs1.status = gs.status
            /\ KeepsSession(p)
               => ~(gs.status = "waiting" /\ gs1.status = "finished")
C8_OnlyWhilePlaying == [][C8_Step]_vars

\* the player of a guess is not in the list, or is already finished
UnknownOrFinished(gs, id) ==
    \/ \A i \in DOMAIN gs.players : gs.players[i].id # id
    \/ \E i \in DOMAIN gs.players :
          /\ gs.players[i].id = id
          /\ \A j \in 1..(i - 1) : gs.players[j].id # id
          /\ gs.players[i].status = "finished"

\* C9: at a host, a guess for a player that is not in the list or is already
\* finished changes nothing of the manager's state and sends no message
C9_Step ==
    \A p \in Procs :
        (mgr[p].isHost /\ mgr[p].gameState # NoGame)
        => /\ \A s \in Procs :
                (/\ Receives(p, s, "game:guess")
                 /\ UnknownOrFinished(mgr[p].gameState,
                                      Head(inbox[p][s]).msg.data.playerId)
                 /\ OnGuess(p, s))
                => /\ mgr' = mgr
                   /\ inbox' = Consumed(p, s)
           /\ \A w \in AllGuessInputs :
                (/\ UnknownOrFinished(mgr[p].gameState, mgr[p].currentPlayerId)
                 /\ MakeGuess(p, w))
                => /\ mgr' = mgr
                   /\ inbox' = inbox
C9_NoOp == [][C9_Step]_vars

\* the host has ignored its own second guess after finishing with its first,
\* and has now ignored the guess of a peer it never admitted
C9_Ignored ==
    /\ IsHostOf(Host)
    /\ last = [op |-> "handlePlayerGuess", proc |-> Host, outcome |-> "ignored"]
    /\ FindById(mgr[Host].gameState.players, IdOf[Peer]) = 0
    /\ PlayerOf(mgr[Host].gameState, IdOf[Host]).status = "finished"
    /\ Len(PlayerOf(mgr[Host].gameState, IdOf[Host]).guesses) = 1
    /\ guessCalls[Host] = 2
    /\ guessCalls[Peer] >= 1

\* C10: the ids of the players in the host's list are pairwise different
C10_UniqueIds ==
    \A p \in Procs :
        IsHostOf(p)
            => \A i \in DOMAIN mgr[p].gameState.players,
                  j \in DOMAIN mgr[p].gameState.players :
                  i # j => mgr[p].gameState.players[i].id # mgr[p].gameState.players[j].id

\* the names of the players in a list are pairwise different
UniqueNames(players) ==
    \A i \in DOMAIN players, j \in DOMAIN players :
        i # j => players[i].name # players[j].name

\* C11: a host that handles a join request whose name equals, letter case
\* included, the name of a player in its list changes nothing of any manager's
\* state and posts one message only, the error addressed to the requester (no
\* snapshot, no player-joined); and the names in a player list stay pairwise
\* different
C11_Step ==
    /\ \A p \in Procs, s \in Procs :
          (/\ Receives(p, s, "game:join-request")
           /\ mgr[p].isHost
           /\ mgr[p].gameState # NoGame
           /\ \E i \in DOMAIN mgr[p].gameState.players :
                 mgr[p].gameState.players[i].name = Head(inbox[p][s]).msg.data.name
           /\ OnJoinRequest(p, s))
          => /\ mgr' = mgr
             /\ inbox' = PostAll(Consumed(p, s), p,
                                 << Msg("game:error",
                                        [target |-> Head(inbox[p][s]).msg.data.id,
                                         spread |-> "Player name already taken"]) >>,
                                 now)
    /\ \A p \in Procs :
          mgr'[p].gameState # NoGame => UniqueNames(mgr'[p].gameState.players)
C11_Rejected == [][C11_Step]_vars

\* the host has admitted the peer as Bob and has just rejected its second
\* request under that name: the error for the peer waits on the channel
C11_NameClash ==
    /\ IsHostOf(Host)
    /\ last = [op |-> "handleJoinRequest", proc |-> Host, outcome |-> "rejected"]
    /\ Len(mgr[Host].gameState.players) = 2
    /\ mgr[Host].gameState.players[2].name = "Bob"
    /\ \E k \in DOMAIN inbox[Peer][Host] :
          /\ inbox[Peer][Host][k].msg.type = "game:error"
          /\ inbox[Peer][Host][k].msg.data.target = IdOf[Peer]

\* the word of a game:guess payload: of its guess, or its own
GuessWord(data) == IF "guess" \in DOMAIN data THEN data.guess.word ELSE data.word

\* the error handlePlayerGuess sends to the player of a malformed word
C12_InvalidWordError(playerId) ==
    Msg("game:error", [target |-> playerId, spread |-> "Invalid word"])

\* C12: a host that processes the guess of a listed, unfinished player whose
\* word is not five letters changes nothing of any manager's state and posts
\* one message only, the error for that player (no guess, finished or state
\* message)
C12_Step ==
    \A p \in Procs :
        (mgr[p].isHost /\ mgr[p].gameState # NoGame)
        => /\ \A s \in Procs :
                (/\ Receives(p, s, "game:guess")
                 /\ ~UnknownOrFinished(mgr[p].gameState,
                                       Head(inbox[p][s]).msg.data.playerId)
                 /\ ~validateWord(GuessWord(Head(inbox[p][s]).msg.data))
                 /\ OnGuess(p, s))
                => /\ mgr' = mgr
                   /\ inbox' = PostAll(Consumed(p, s), p,
                                       << C12_InvalidWordError(Head(inbox[p][s]).msg.data.playerId) >>,
                                       now)
           /\ \A w \in AllGuessInputs :
                (/\ ~UnknownOrFinished(mgr[p].gameState, mgr[p].currentPlayerId)
                 /\ ~validateWord(w)
                 /\ MakeGuess(p, w))
                => /\ mgr' = mgr
                   /\ inbox' = PostAll(inbox, p,
                                       << C12_InvalidWordError(mgr[p].currentPlayerId) >>, now)
C12_InvalidGuess == [][C12_Step]_vars

\* C13: makeGuess at a process that is not the host posts the guess and
\* changes no manager's state; and the host that handles the delivered guess
\* of a listed, unfinished player with a five-letter word appends exactly one
\* entry for that word to that player's guesses
C13_Step ==
    /\ \A p \in Procs, w \in AllGuessInputs :
          (/\ ~(mgr[p].isHost /\ mgr[p].gameState # NoGame)
           /\ mgr[p].currentPlayerId # NoId
           /\ MakeGuess(p, w))
          => /\ mgr' = mgr
             /\ inbox' = PostAll(inbox, p,
                                 << Msg("game:guess",
                                        [playerId |-> mgr[p].currentPlayerId,
                                         word |-> w]) >>,
                                 now)
    /\ \A h \in Procs, s \in Procs :
          (/\ Receives(h, s, "game:guess")
           /\ IsHostOf(h)
           /\ "word" \in DOMAIN Head(inbox[h][s]).msg.data
           /\ ~UnknownOrFinished(mgr[h].gameState, Head(inbox[h][s]).msg.data.playerId)
           /\ validateWord(Head(inbox[h][s]).msg.data.word)
           /\ OnGuess(h, s))
          => LET data == Head(inbox[h][s]).msg.data
                 before == PlayerOf(mgr[h].gameState, data.playerId).guesses
                 after == PlayerOf(mgr'[h].gameState, data.playerId).guesses
             IN  /\ Len(after) = Len(before) + 1
                 /\ SubSeq(after, 1, Len(before)) = before
                 /\ after[Len(after)].word = toUpperCase(data.word)
C13_Forwarded == [][C13_Step]_vars

\* C14: the GameState held by a process that is not a host changes only by
\* becoming the snapshot of a game:state message it handles in that step, or
\* by being cleared; a player-left, player-joined, guess, finished or error
\* event changes no field of it
C14_Step ==
    \A p \in Procs :
        (/\ ~mgr[p].isHost
         /\ ~mgr'[p].isHost
         /\ mgr'[p].gameState # mgr[p].gameState)
        => \/ mgr'[p].gameState = NoGame
           \/ \E s \in Procs :
                 /\ Receives(p, s, "game:state")
                 /\ OnState(p, s)
                 /\ mgr'[p].gameState = Head(inbox[p][s]).msg.data
C14_CacheOnlyReplaced == [][C14_Step]_vars

\* the four compared fields of a cached GameState equal those of gs
C15_SameSession(gs, cache) ==
    /\ cache # NoGame
    /\ cache.gameId = gs.gameId
    /\ cache.players = gs.players
    /\ cache.status = gs.status
    /\ cache.startTime = gs.startTime

\* r is not a host, shares a channel with host h and is in h's player list
C15_Admitted(h, r) ==
    /\ IsHostOf(h)
    /\ ~mgr[r].isHost
    /\ Connected(h, r)
    /\ FindById(mgr[h].gameState.players, bm[r].myId) # 0

C15_Agree ==
    \A h \in Procs, r \in Procs :
        C15_Admitted(h, r) => C15_SameSession(mgr[h].gameState, mgr[r].gameState)

C15_Step ==
    \A h \in Procs :
        (/\ KeepsSession(h)
         /\ last'.proc = h
         /\ mgr'[h].gameState # mgr[h].gameState)
        => \A r \in Procs \ {h} :
              chans[r][bm[h].channel] > 0
              => LET q == inbox'[r][h]
                 IN  /\ q # <<>>
                     /\ q[Len(q)].msg.type = "game:state"
                     /\ C15_SameSession(mgr'[h].gameState, q[Len(q)].msg.data)

\* C15: every step in which the host changes its GameState ends with a
\* snapshot of the new GameState posted to the processes on its channel; and
\* with every queued message eventually delivered, from some point on the
\* cache of every admitted process on the host's channel agrees with the
\* host's GameState on gameId, players, status and startTime
C15_Convergence == [][C15_Step]_vars /\ <>[]C15_Agree

\* C16: the GameState of a host changes only in steps of the host's own
\* operations and handlers of requests, and handling a game:state message,
\* whoever sent it, leaves the host's GameState, secret included, as it was
C16_Step ==
    \A p \in Procs :
        IsHostOf(p)
        => /\ mgr'[p].gameState # mgr[p].gameState
                => last'.proc = p /\ last'.op # "handleGameStateUpdate"
           /\ \A s \in Procs :
                (Receives(p, s, "game:state") /\ OnState(p, s))
                => mgr'[p].gameState = mgr[p].gameState
C16_HostStateOwned == [][C16_Step]_vars

\* C17: a host that handles the peer-left signal for a listed player sets
\* that player's status to disconnected, changes nothing else of its
\* GameState (the record stays, with its guesses and timeUsed), and posts the
\* snapshot of the new GameState; and a later exact-match guess finishes the
\* session when every player that is not disconnected is finished
C17_Step ==
    \A h \in Procs :
        LET gs  == mgr[h].gameState
            gs1 == mgr'[h].gameState
        IN  /\ \A q \in Procs :
                  (/\ IsHostOf(h)
                   /\ FindById(gs.players, bm[q].myId) # 0
                   /\ PeerLeft(h, bm[q].myId))
                  => /\ gs1 = [gs EXCEPT
                                  !.players[FindById(gs.players, bm[q].myId)].status =
                                      "disconnected"]
                     /\ inbox' = PostAll(inbox, h, << Msg("game:state", gs1) >>, now)
            /\ (/\ KeepsSession(h)
                /\ \E i \in DOMAIN gs.players : gs.players[i].status = "disconnected"
                /\ GuessStep(h)
                /\ last'.outcome = "correct"
                /\ \A i \in DOMAIN gs1.players :
                      gs1.players[i].status \in {"finished", "disconnected"})
               => gs1.status = "finished"
C17_MarkedDisconnected == [][C17_Step]_vars

\* the host has marked Bob disconnected, and its own exact match has then
\* finished the session although Bob never finished
C17_LeftBehind ==
    /\ IsHostOf(Host)
    /\ Len(mgr[Host].gameState.players) = 2
    /\ mgr[Host].gameState.players[2].name = "Bob"
    /\ mgr[Host].gameState.players[2].status = "disconnected"
    /\ mgr[Host].gameState.players[1].status = "finished"
    /\ mgr[Host].gameState.status = "finished"
    /\ last = [op |-> "makeGuess", proc |-> Host, outcome |-> "correct"]

\* C18: for each peer of the direct transport, between two moments at which
\* its connection is connected at most one game:player-left event is emitted:
\* the connection-state callback and the data-channel close callback never
\* produce two events for one disconnection
C18_LeftOnce == \A q \in RtcPeers : rtc[q].left <= 1

\* C19: a host that is delivered the game:leave message of a player in its
\* list marks that player disconnected in that step and posts a snapshot of
\* the new GameState
C19_Step ==
    \A h \in Procs, s \in Procs :
        (/\ Receives(h, s, "game:leave")
         /\ IsHostOf(h)
         /\ FindById(mgr[h].gameState.players, Head(inbox[h][s]).msg.data) # 0
         /\ OnLeave(h, s))
        => /\ PlayerOf(mgr'[h].gameState, Head(inbox[h][s]).msg.data).status =
                 "disconnected"
           /\ inbox' = PostAll(Consumed(h, s), h,
                               << Msg("game:state", mgr'[h].gameState) >>, now)
C19_LeaveSurfaced == [][C19_Step]_vars

\* C20: a step in which a process takes a message whose senderId is its own
\* id off a channel object runs no subscribed handler: the message is
\* dropped, no manager's state changes and nothing is posted
C20_Step ==
    \A r \in Procs, s \in Procs :
        (/\ inbox[r][s] # <<>>
         /\ Head(inbox[r][s]).msg.senderId = bm[r].myId
         /\ inbox'[r][s] = Consumed(r, s)[r][s])
        => /\ last' = [op |-> "onmessage", proc |-> r, outcome |-> "own"]
           /\ mgr' = mgr
           /\ inbox' = Consumed(r, s)
C21_Step ==
    \A r \in Procs, s \in Procs :
        (Receives(r, s, "game:error") /\ OnError(r, s))
        => Head(inbox[r][s]).msg.data.target = bm[r].myId
C21_OnlyTarget == [][C21_Step]_vars

\* C30: when a host calls makeGuess with a word that is not five letters, no
\* message reaches any other process and the host's GameState is unchanged
C30_Step ==
    \A h \in Procs, w \in AllGuessInputs :
        (/\ mgr[h].isHost
         /\ mgr[h].gameState # NoGame
         /\ ~validateWord(w)
         /\ MakeGuess(h, w))
        => /\ mgr'[h].gameState = mgr[h].gameState
           /\ \A r \in Procs \ {h} : inbox'[r][h] = inbox[r][h]
C30_HostOnly == [][C30_Step]_vars

\* C23: a process that is not a host and handles game:terminated ends the
\* step with no GameState, no local player id and the host flag false; while
\* a process has no local player id its makeGuess returns at once, handing no
\* message to the transport and changing nothing; and only its own joinGame
\* (also when called by reconnectToGame) or createGame gives it a player id
\* again
C23_Step ==
    \A p \in Procs :
        /\ \A s \in Procs :
              (/\ ~mgr[p].isHost
               /\ Receives(p, s, "game:terminated")
               /\ OnTerminated(p, s))
              => mgr'[p] = NoSession
        /\ \A w \in AllGuessInputs :
              (mgr[p].currentPlayerId = NoId /\ MakeGuess(p, w))
              => /\ mgr' = mgr
                 /\ inbox' = inbox
                 /\ last' = [op |-> "makeGuess", proc |-> p, outcome |-> "no-player"]
        /\ (mgr[p].currentPlayerId = NoId /\ mgr'[p].currentPlayerId # NoId)
              => last'.proc = p
                 /\ last'.op \in {"joinGame", "createGame", "reconnectToGame"}
C23_Terminated == [][C23_Step]_vars

\* the host has left; the peer, which had joined, has handled the terminated
\* message and has then called makeGuess
C23_GuessAfterEnd ==
    /\ mgr[Host] = NoSession
    /\ hostInfo = {}
    /\ bm[Peer].myId = NextId(IdOf[Peer])
    /\ bm[Peer].channel = NoGameId
    /\ mgr[Peer] = NoSession
    /\ last = [op |-> "makeGuess", proc |-> Peer, outcome |-> "no-player"]
    /\ \A r \in Procs, q \in Procs : inbox[r][q] = <<>>

\* C24: joinGame with a name that is not blank, for a game id with no host
\* record, ends in the not-found error, opens no channel, suspends no call and
\* posts nothing; and a joinGame step that opens a channel of a game id does
\* so only if a host record for that id exists when it is called
C24_Step ==
    \A p \in Procs, g \in GameIds, n \in {"Bob", "Alice"} :
        JoinGame(p, g, n) =>
            /\ (\A h \in hostInfo : h.gameId # g) =>
                  /\ last' = [op |-> "joinGame", proc |-> p, outcome |-> "not-found"]
                  /\ chans' = chans
                  /\ bm' = bm
                  /\ pending' = pending
                  /\ inbox' = inbox
            /\ chans'[p][g] > chans[p][g] => \E h \in hostInfo : h.gameId = g

C24_NotFound == [][C24_Step]_vars

\* process b asked to join game G2 while only G1 was advertised: not found,
\* no channel opened, nothing suspended or waiting
C24_Unadvertised ==
    /\ last = [op |-> "joinGame", proc |-> Peer, outcome |-> "not-found"]
    /\ \E h \in hostInfo : h.gameId = "G1"
    /\ \A h \in hostInfo : h.gameId # "G2"
    /\ OpenChannels(Peer) = {}
    /\ pending[Peer] = <<>>
    /\ mgr[Peer].currentPlayerId = bm[Peer].myId
    /\ \A r \in Procs : inbox[r][Peer] = <<>>

\* C29: createGame with the secret HOU5E (a digit among the letters) or with
\* the name " ", and joinGame with the name " ", report an error to the
\* caller and change nothing: the manager's GameState, host flag and player
\* id, the BroadcastManager, its channels, the host records, the remembered
\* names and the messages in flight stay as they were
C29_Step ==
    \A p \in Procs :
        (\/ \E w \in EntrySecrets, n \in {"Alice", "Bob", " "} :
               (w = HOU5E \/ n = " ") /\ CreateGame(p, w, n)
         \/ \E g \in GameIds : JoinGame(p, g, " "))
        => /\ last'.outcome = "threw"
           /\ last'.proc = p
           /\ mgr' = mgr
           /\ bm' = bm
           /\ chans' = chans
           /\ pending' = pending
           /\ hostInfo' = hostInfo
           /\ savedName' = savedName
           /\ inbox' = inbox

C29_Rejected == [][C29_Step]_vars

\* createGame of process a has just failed before any session existed:
\* nothing is advertised, no channel is open, nothing has been sent
C29_NothingCreated ==
    /\ last = [op |-> "createGame", proc |-> Host, outcome |-> "threw"]
    /\ mgr[Host] = NoSession
    /\ bm[Host].gameId = NoGameId
    /\ OpenChannels(Host) = {}
    /\ hostInfo = {}
    /\ \A r \in Procs : inbox[r][Host] = <<>>

\* C25: reconnectToGame(gameId) changes nothing when the process is connected
\* to that game; otherwise, with no remembered name for gameId, it fails with
\* the cannot-reconnect error and no join request is prepared or posted; and
\* with a remembered name it prepares a join request for the same gameId
\* whose player carries exactly that name
C25_Step ==
    \A p \in Procs, g \in GameIds :
        ReconnectToGame(p, g) =>
            IF isConnectedToGame(mgr[p], g)
            THEN /\ mgr' = mgr
                 /\ bm' = bm
                 /\ chans' = chans
                 /\ pending' = pending
                 /\ inbox' = inbox
            ELSE IF savedName[g] = ""
            THEN /\ last'.outcome = "cannot-reconnect"
                 /\ pending' = pending
                 /\ \A r \in Procs : \A k \in DOMAIN inbox'[r][p] :
                       inbox'[r][p][k].msg.type # "game:join-request"
            ELSE /\ Len(pending'[p]) = Len(pending[p]) + 1
                 /\ pending'[p][Len(pending'[p])].gameId = g
                 /\ pending'[p][Len(pending'[p])].player.name = savedName[g]

C25_Reconnect == [][C25_Step]_vars

\* C22: a step in which the host of a session leaves, is hidden or is
\* unloaded posts the terminated message to every process on the channel of
\* that session and ends with no host record for the session; joinGame for
\* a game id without host record opens no channel and prepares no join
\* request; and no join request is admitted into a session without host
\* record
C22_Step ==
    /\ \A p \in Procs :
          (IsHostOf(p) /\ (LeaveGame(p) \/ PageHidden(p) \/ PageUnload(p)))
          => LET g == mgr[p].gameState.gameId
             IN  /\ \A r \in Procs \ {p} :
                       chans[r][g] > 0 =>
                           \E k \in DOMAIN inbox'[r][p] :
                               /\ inbox'[r][p][k].msg.type = "game:terminated"
                               /\ inbox'[r][p][k].g = g
                 /\ \A h \in hostInfo' : h.gameId # g
    /\ \A p \in Procs, g \in GameIds, n \in {"Alice", "Bob", "Carol"} :
          ((\A h \in hostInfo : h.gameId # g) /\ JoinGame(p, g, n))
          => chans' = chans /\ pending' = pending
    /\ \A p \in Procs :
          (mgr[p].gameState # NoGame /\ AdmitStep(p))
          => \E h \in hostInfo : h.gameId = mgr[p].gameState.gameId

C22_Termination == [][C22_Step]_vars

\* the two words have the same letters the same number of times, whatever
\* the case
C27_Anagrams(a, b) ==
    LET la == toLowerCase(a)
        lb == toLowerCase(b)
    IN  \A c \in {la[i] : i \in DOMAIN la} \cup {lb[i] : i \in DOMAIN lb} :
            LetterCount(la, c) = LetterCount(lb, c)

\* C27: for every pair of five-letter words, calculateCommonLetters is at
\* most 5, gives the same number with the arguments swapped, and is 5 exactly
\* when the words are anagrams of each other, whatever the case
C27_Bounded ==
    calc.common # NoCalc.common =>
        /\ calc.common <= WordLength
        /\ calc.common = calc.swapped
        /\ calc.common = WordLength <=> C27_Anagrams(calc.hostWord, calc.guessWord)

\* two words that differ in order and in case, scored 5
C27_AnagramPair ==
    /\ calc.common = WordLength
    /\ calc.swapped = WordLength
    /\ toLowerCase(calc.hostWord) # toLowerCase(calc.guessWord)
    /\ toUpperCase(calc.hostWord) # calc.hostWord
    /\ validateWord(calc.hostWord)
    /\ validateWord(calc.guessWord)

\* the letters of the guess that find a partner in the host word: the k-th
\* occurrence of a letter in the guess counts if the host word has at least
\* k of that letter
C28_Matched(hostWord, guessWord) ==
    LET h == toLowerCase(hostWord)
        g == toLowerCase(guessWord)
    IN  Cardinality({i \in DOMAIN g :
            Cardinality({j \in 1..i : g[j] = g[i]}) <= LetterCount(h, g[i])})

\* C28: calculateCommonLetters is the size of the multiset intersection of
\* the letters of the two words: 4 for HOUSE and MOUSE, 3 for ERROR and
\* ARROW (two R and one O), and 1 for the secret HOUSE and the guess ELITE,
\* whose two E meet one E
C28_Multiset ==
    calc.common # NoCalc.common =>
        /\ calc.common = C28_Matched(calc.hostWord, calc.guessWord)
        /\ (calc.hostWord = HOUSE /\ calc.guessWord = MOUSE) => calc.common = 4
        /\ (calc.hostWord = ERROR /\ calc.guessWord = ARROW) => calc.common = 3
        /\ (calc.hostWord = HOUSE /\ calc.guessWord = ELITE) => calc.common = 1

\* C28 as stated: the same, with 4 for ERROR and ARROW
C28_AsStated ==
    calc.common # NoCalc.common =>
        /\ calc.common = C28_Matched(calc.hostWord, calc.guessWord)
        /\ (calc.hostWord = HOUSE /\ calc.guessWord = MOUSE) => calc.common = 4
        /\ (calc.hostWord = ERROR /\ calc.guessWord = ARROW) => calc.common = 4
        /\ (calc.hostWord = HOUSE /\ calc.guessWord = ELITE) => calc.common = 1

\* ERROR scored against ARROW: the three R of ERROR meet the two R of ARROW
C28_Repeated ==
    /\ calc.hostWord = ERROR
    /\ calc.guessWord = ARROW
    /\ calc.common = 3
    /\ LetterCount(toLowerCase(calc.hostWord), "r") = 3
    /\ LetterCount(toLowerCase(calc.guessWord), "r") = 2

\* C26: the elapsed-time counter of a mounted page never decreases, and the
\* timer fires only in a state where the GameState the page holds has status
\* playing and the page's current player exists with a status other than
\* finished
C26_Step ==
    /\ \A p \in Procs :
          (hook[p].mounted /\ hook'[p].mounted)
          => hook'[p].timeElapsed >= hook[p].timeElapsed
    /\ \A p \in Procs :
          HookTick(p) =>
              /\ ViewState(hook[p], mgr[p]) # NoGame
              /\ ViewState(hook[p], mgr[p]).status = "playing"
              /\ ViewPlayer(hook[p], mgr[p]) # NoPlayer
              /\ ViewPlayer(hook[p], mgr[p]).status # "finished"

C26_TicksWhilePlaying == [][C26_Step]_vars

\* s is an initial segment of t
C31_IsPrefix(s, t) == Len(s) <= Len(t) /\ SubSeq(t, 1, Len(s)) = s

\* C31: in every step of a host that keeps its session, each player's guess
\* list before the step is an initial segment of the list after it, every
\* player record stays at its position in players, and the host's own record
\* is the first
C31_Step ==
    \A p \in Procs :
        KeepsSession(p)
        => LET ps  == mgr[p].gameState.players
               ps1 == mgr'[p].gameState.players
           IN  /\ Len(ps) <= Len(ps1)
               /\ \A i \in DOMAIN ps :
                     /\ ps1[i].id = ps[i].id
                     /\ ps1[i].name = ps[i].name
                     /\ C31_IsPrefix(ps[i].guesses, ps1[i].guesses)
               /\ ps1[1].id = bm[p].myId
C31_AppendOnly == [][C31_Step]_vars

-----------------------------------------------------------------------------
(* The clock: process a creates a game, process b creates another, a asks   *)
(* to join the game of b without leaving its own, the clock advances        *)
(* between the guesses of a, and the transport may signal to b that a left  *)

ClockNames == {"Carol"}
ClockGuessInputs == {MOUSE}

\* operations are requested while nothing waits at process b
Idle == \A s \in Procs : inbox[Second][s] = <<>>

\* two hosts on one channel echo a guess that matches at neither for ever,
\* each recording it and broadcasting it again: the echo is followed while
\* the lists of r are short
Brief(r) ==
    \/ mgr[r].gameState = NoGame
    \/ \A i \in DOMAIN mgr[r].gameState.players :
          Len(mgr[r].gameState.players[i].guesses) <= MaxGuesses

NextClock ==
    \/ Idle /\ Tick
    \/ \E w \in SecretInputs, n \in HostNames :
          mgr[Host].gameState = NoGame /\ CreateGame(Host, w, n)
    \/ \E w \in SecondSecrets, n \in SecondNames :
          /\ mgr[Host].gameState # NoGame
          /\ mgr[Second].gameState = NoGame
          /\ CreateGame(Second, w, n)
    \/ \E n \in ClockNames :
          /\ Idle
          /\ bm[Second].gameId \in Advertised
          /\ chans[Host][bm[Second].gameId] = 0
          /\ JoinGame(Host, bm[Second].gameId, n)
    \/ Idle /\ JoinGameResume(Host)
    \/ \E w \in ClockGuessInputs : Idle /\ MakeGuess(Host, w)
    \/ Connected(Second, Host) /\ PeerLeft(Second, IdOf[Host])
    \/ \E r \in Session, s \in Session :
          \/ Brief(r) /\ OnGuess(r, s)
          \/ OnJoinRequest(r, s)
          \/ OnState(r, s)
          \/ OnPlayerJoined(r, s)

SpecClock == Init /\ [][NextClock]_vars

\* C32: in every step of a host that keeps its session the timeUsed of each
\* player record is at least what it was before the step, and a step that
\* records a guess sets the player's timeUsed to the whole seconds between
\* startTime and the clock
C32_Step ==
    \A p \in Procs :
        KeepsSession(p)
        => LET gs  == mgr[p].gameState
               gs1 == mgr'[p].gameState
           IN  /\ \A i \in DOMAIN gs.players :
                     i \in DOMAIN gs1.players
                     => gs1.players[i].timeUsed >= gs.players[i].timeUsed
               /\ \A i \in DOMAIN gs.players :
                     (/\ GuessStep(p)
                      /\ last'.outcome \in {"recorded", "correct"}
                      /\ i \in DOMAIN gs1.players
                      /\ Len(gs1.players[i].guesses) > Len(gs.players[i].guesses))
                     => gs1.players[i].timeUsed = TimeUsed(gs, now)
C32_TimeMonotone == [][C32_Step]_vars

\* C33: in every step of a host that keeps its session the status of a player
\* record either stays what it was or goes from playing to finished or from
\* playing to disconnected
C33_Step ==
    \A p \in Procs :
        KeepsSession(p)
        => LET ps  == mgr[p].gameState.players
               ps1 == mgr'[p].gameState.players
           IN  \A i \in DOMAIN ps :
                  (i \in DOMAIN ps1 /\ ps1[i].id = ps[i].id)
                  => \/ ps1[i].status = ps[i].status
                     \/ /\ ps[i].status = "playing"
                        /\ ps1[i].status \in {"finished", "disconnected"}
C33_StatusMoves == [][C33_Step]_vars

\* C34: a leaveGame that runs through at a process in a session leaves no
\* remembered player name for that session's game id, and, at the host, no
\* advertisement of it
C34_Step ==
    \A p \in Procs :
        (/\ bm[p].gameId \in GameIds
         /\ LeaveGame(p)
         /\ last'.outcome = "left")
        => /\ savedName'[bm[p].gameId] = ""
           /\ bm[p].isHost => bm[p].gameId \notin Advertised'
C34_RecordsRemoved == [][C34_Step]_vars

\* what C35 asks of a host step that processes the word of a listed,
\* unfinished player: one entry more, for the word in uppercase with the
\* count against the host's secret, and finished exactly on a match
C35_Scored(h, playerId, word) ==
    LET gs == mgr[h].gameState
        before == PlayerOf(gs, playerId)
        after == PlayerOf(mgr'[h].gameState, playerId)
    IN  /\ Len(after.guesses) = Len(before.guesses) + 1
        /\ C31_IsPrefix(before.guesses, after.guesses)
        /\ after.guesses[Len(after.guesses)].word = toUpperCase(word)
        /\ after.guesses[Len(after.guesses)].commonLetters
              = calculateCommonLetters(gs.hostWord, toUpperCase(word))
        /\ after.status = "finished" <=> toUpperCase(word) = toUpperCase(gs.hostWord)

\* C35: a host that processes a five-letter word of a listed, unfinished
\* player, its own or one delivered in a game:guess message, appends exactly
\* one entry with the word in uppercase and the count of common letters with
\* its secret, whatever count the message carried, and the player is
\* finished after the step exactly when the word is the secret up to case
C35_Step ==
    \A h \in Procs :
        IsHostOf(h)
        => /\ \A s \in Procs :
                (/\ Receives(h, s, "game:guess")
                 /\ ~UnknownOrFinished(mgr[h].gameState,
                                       Head(inbox[h][s]).msg.data.playerId)
                 /\ validateWord(GuessWord(Head(inbox[h][s]).msg.data))
                 /\ OnGuess(h, s))
                => C35_Scored(h, Head(inbox[h][s]).msg.data.playerId,
                          GuessWord(Head(inbox[h][s]).msg.data))
           /\ \A w \in AllGuessInputs :
                (/\ ~UnknownOrFinished(mgr[h].gameState, mgr[h].currentPlayerId)
                 /\ validateWord(w)
                 /\ MakeGuess(h, w))
                => C35_Scored(h, mgr[h].currentPlayerId, w)
C35_Scoring == [][C35_Step]_vars

-----------------------------------------------------------------------------
(* The hidden page: process a creates the game and process b joins it as    *)
(* Bob; the page of a may be hidden (the user switches to another tab and   *)
(* comes back), unloaded or left, and both go on guessing                   *)

HiddenNames == {"Bob"}
HiddenGuessInputs == {HOUSE, MOUSE}

NextHidden ==
    \/ \E w \in SecretInputs, n \in HostNames :
          /\ mgr[Host].gameState = NoGame
          /\ bm[Host].myId = IdOf[Host]
          /\ CreateGame(Host, w, n)
    \/ \E g \in Advertised, n \in HiddenNames :
          /\ OpenChannels(Peer) = {}
          /\ bm[Peer].myId = IdOf[Peer]
          /\ JoinGame(Peer, g, n)
    \/ JoinGameResume(Peer)
    \/ \E p \in Session, w \in HiddenGuessInputs : MakeGuess(p, w)
    \/ OpenChannels(Host) # {} /\ PageHidden(Host)
    \/ OpenChannels(Host) # {} /\ PageUnload(Host)
    \/ OpenChannels(Host) # {} /\ LeaveGame(Host)
    \/ \E r \in Session, s \in Session :
          \/ OnGuess(r, s)
          \/ OnJoinRequest(r, s)
          \/ OnState(r, s)
          \/ OnPlayerJoined(r, s)
          \/ OnFinished(r, s)
          \/ OnLeave(r, s)
          \/ OnTerminated(r, s)

SpecHidden == Init /\ [][NextHidden]_vars

\* what process r was sent by h in the step
C36_NewFrom(r, h) == SubSeq(inbox'[r][h], Len(inbox[r][h]) + 1, Len(inbox'[r][h]))

\* C36: a host step that appends a guess to a player's list posts, to every
\* other process with an open object of the session's channel, the guess
\* event and then the snapshot, whose player list has the new guess, and
\* before both the finished event of that player when the word is the secret
C36_Step ==
    \A h \in Procs :
        (IsHostOf(h) /\ mgr'[h].gameState # NoGame /\ GuessStep(h))
        => LET gs  == mgr[h].gameState
               ps  == gs.players
               ps1 == mgr'[h].gameState.players
           IN  \A i \in DOMAIN ps, r \in Procs \ {h} :
                  (/\ i \in DOMAIN ps1
                   /\ Len(ps1[i].guesses) > Len(ps[i].guesses)
                   /\ chans[r][gs.gameId] > 0)
                  => LET new == C36_NewFrom(r, h)
                         guess == ps1[i].guesses[Len(ps1[i].guesses)]
                         match == isWordCorrect(gs.hostWord, guess.word)
                         n == Len(new)
                     IN  /\ [k \in DOMAIN new |-> new[k].msg.type]
                              = (IF match THEN << "game:finished" >> ELSE <<>>)
                                \o << "game:guess", "game:state" >>
                         /\ new[n - 1].msg.data = [playerId |-> ps[i].id, guess |-> guess]
                         /\ new[n].msg.data.players = ps1
                         /\ match => new[1].msg.data.playerId = ps[i].id
C37_OneHost ==
    \A g \in GameIds :
        Cardinality({p \in Procs : mgr[p].isHost /\ chans[p][g] > 0}) <= 1

\* C37: after every step at most one process with the host flag set listens
\* on the channel of a game, and a process whose joinGame call opened the
\* channel of a game or sent its join request has its host flag false
C37_Step ==
    /\ C37_OneHost'
    /\ \A p \in Procs :
          (/\ last'.op = "joinGame"
           /\ last'.proc = p
           /\ last'.outcome \in {"waiting", "requested"})
          => ~mgr'[p].isHost /\ ~bm'[p].isHost
C37_SingleHost == [][C37_Step]_vars

\* p is the host of a session that its cleanup has ended: the terminated
\* message went out, the advertisement is removed and the channel object is
\* closed, while the manager of p still holds the GameState
C38_Ended(p) ==
    /\ mgr[p].isHost
    /\ mgr[p].gameState # NoGame
    /\ bm[p].isHost
    /\ bm[p].gameId = mgr[p].gameState.gameId
    /\ bm[p].channel = Closed
    /\ mgr[p].gameState.gameId \notin Advertised

\* C38: a host whose cleanup has ended its session keeps the GameState of
\* that session as it is until the manager drops it, and sends no guess,
\* finished, player-joined or state message
C38_Step ==
    \A p \in Procs :
        C38_Ended(p)
        => /\ mgr'[p].gameState \in {mgr[p].gameState, NoGame}
           /\ \A r \in Procs :
                 Len(inbox'[r][p]) > Len(inbox[r][p])
                 => \A k \in DOMAIN C36_NewFrom(r, p) :
                       C36_NewFrom(r, p)[k].msg.type
                          \notin {"game:guess", "game:finished",
                                  "game:player-joined", "game:state"}
C38_Frozen == [][C38_Step]_vars

\* C39: a host that handles a delivered game:guess message appends to the
\* guesses of a player, or marks a player finished, only when the sender of
\* the message is that player
C39_Step ==
    \A h \in Procs, s \in Procs :
        (/\ KeepsSession(h)
         /\ Receives(h, s, "game:guess")
         /\ OnGuess(h, s))
        => LET ps  == mgr[h].gameState.players
               ps1 == mgr'[h].gameState.players
           IN  \A i \in DOMAIN ps :
                  (/\ i \in DOMAIN ps1
                   /\ \/ Len(ps1[i].guesses) > Len(ps[i].guesses)
                      \/ ps1[i].status = "finished" /\ ps[i].status # "finished")
                  => ps[i].id = Head(inbox[h][s]).msg.senderId
C39_OwnGuessesOnly == [][C39_Step]_vars

\* the word of this guess is the secret
C40_IsMatch(gs, guess) == isWordCorrect(gs.hostWord, guess.word)

====
